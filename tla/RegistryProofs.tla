--------------------------- MODULE RegistryProofs ---------------------------
(***************************************************************************)
(* Proofs about Registry, for every set of clients and devices.  The five  *)
(* invariants are proved together: WatchCount needs the watchers lists to  *)
(* be finite and to name only live clients on known devices, and the       *)
(* clean-up of Free covers the whole devices list only because a non-empty *)
(* list implies provider.                                                  *)
(***************************************************************************)
EXTENDS Registry, FiniteSetTheorems, TLAPS

\* The inductive invariant.
IInv ==
  /\ TypeOK
  /\ OneList
  /\ IsFiniteSet(watch)
  /\ WatchersLive
  /\ WatchCount
  /\ OkHasConnection

-----------------------------------------------------------------------------
(* Lemmas about the entries of a client on the watchers lists. *)

\* Every client's entries are a finite set, so their number is a natural.
LEMMA EntriesFinite ==
  ASSUME IsFiniteSet(watch), NEW c \in Clients
  PROVE  IsFiniteSet(EntriesOf(c)) /\ Cardinality(EntriesOf(c)) \in Nat
BY FS_Subset, FS_CardinalityType DEF EntriesOf

\* Free leaves no entry of the client it frees, and its count at zero.
LEMMA FreeUnwatches ==
  ASSUME IInv, NEW c \in Clients, Free(c)
  PROVE  /\ watch' = watch \ EntriesOf(c)
         /\ watched' = [watched EXCEPT ![c] = 0]
<1>1. {w \in EntriesOf(c) : w[1] \in known} = EntriesOf(c)
  BY DEF IInv, WatchersLive, EntriesOf
<1>2. watched[c] - Cardinality(EntriesOf(c)) = 0
  BY EntriesFinite DEF IInv, WatchCount
<1> QED BY <1>1, <1>2 DEF Free, Unwatch

\* Free takes every device of the client off its list.
LEMMA FreeUnlinks ==
  ASSUME IInv, NEW c \in Clients, Free(c)
  PROVE  /\ devs' = [devs EXCEPT ![c] = {}]
         /\ onq' = onq \ devs[c]
         /\ collector' = [d \in Devices |-> IF d \in devs[c] THEN NoClient
                                                            ELSE collector[d]]
<1>1. (IF provider[c] THEN devs[c] ELSE {}) = devs[c]
  BY DEF IInv, OneList, TypeOK
<1> QED BY <1>1 DEF Free, Unlink

-----------------------------------------------------------------------------
\* The initial states satisfy the invariant.
LEMMA InitIInv == Init => IInv
<1> SUFFICES ASSUME Init PROVE IInv OBVIOUS
<1> USE DEF Init
<1>1. TypeOK BY RegistryAssumption DEF TypeOK, Devices
<1>2. OneList BY DEF OneList
<1>3. IsFiniteSet(watch) BY FS_EmptySet
<1>4. WatchersLive BY DEF WatchersLive
<1>5. WatchCount
  <2>1. \A c \in Clients : EntriesOf(c) = {} BY DEF EntriesOf
  <2> QED BY <2>1, FS_EmptySet DEF WatchCount
<1>6. OkHasConnection BY DEF OkHasConnection
<1> QED BY <1>1, <1>2, <1>3, <1>4, <1>5, <1>6 DEF IInv

\* Each conjunct of the invariant, when nothing it reads changes.
LEMMA SameWatch ==
  ASSUME IInv, UNCHANGED <<watch, watched>>
  PROVE  IsFiniteSet(watch)' /\ WatchCount'
BY DEF IInv, WatchCount, EntriesOf

-----------------------------------------------------------------------------
\* Every action preserves the invariant.
LEMMA StepIInv == IInv /\ [Next]_vars => IInv'
<1> SUFFICES ASSUME IInv, [Next]_vars PROVE IInv' OBVIOUS
<1> USE RegistryAssumption
<1>1. ASSUME NEW c \in Clients, Accept(c) PROVE IInv'
  <2> USE <1>1
  <2>1. c \notin Live BY DEF Accept, Live
  <2>2. Live' = Live \cup {c} BY DEF Accept, Live, IInv, TypeOK
  <2>3. EntriesOf(c) = {} BY <2>1 DEF IInv, WatchersLive, EntriesOf
  <2>4. TypeOK' BY DEF Accept, IInv, TypeOK, deviceVars
  <2>5. OneList' BY <2>1, <2>2 DEF Accept, IInv, OneList, TypeOK, deviceVars
  <2>6. IsFiniteSet(watch)' BY DEF Accept, IInv, deviceVars
  <2>7. WatchersLive' BY <2>2 DEF Accept, IInv, WatchersLive, deviceVars
  <2>8. WatchCount'
    BY <2>3, FS_EmptySet DEF Accept, IInv, TypeOK, WatchCount, EntriesOf, deviceVars
  <2>9. OkHasConnection' BY <2>2 DEF Accept, IInv, OkHasConnection, deviceVars
  <2> QED BY <2>4, <2>5, <2>6, <2>7, <2>8, <2>9 DEF IInv
<1>2. ASSUME NEW c \in Clients, NEW d \in Trackers, Client(c, d) PROVE IInv'
  <2> USE <1>2
  <2>1. Live' = Live BY DEF Client, Live
  <2>2. TypeOK' BY DEF Client, Heard, IInv, TypeOK, Devices
  <2>3. OneList' BY <2>1 DEF Client, IInv, OneList
  <2>4. IsFiniteSet(watch)' /\ WatchCount' BY SameWatch DEF Client
  <2>5. WatchersLive' BY <2>1 DEF Client, IInv, WatchersLive
  <2>6. OkHasConnection'
    <3> SUFFICES ASSUME NEW e \in Trackers, status'[e] = "ok"
                 PROVE  \E o \in Live' : collDev'[o] = e
      BY DEF OkHasConnection
    <3>1. CASE e = d BY <3>1, <2>1 DEF Client, IInv, TypeOK, Live
    <3>2. CASE e # d
      <4>1. PICK o \in Live : collDev[o] = e
        BY <3>2 DEF Client, IInv, TypeOK, OkHasConnection
      <4>2. o # c BY <4>1 DEF Client
      <4> QED BY <4>1, <4>2, <2>1 DEF Client, IInv, TypeOK
    <3> QED BY <3>1, <3>2
  <2> QED BY <2>2, <2>3, <2>4, <2>5, <2>6 DEF IInv
<1>3. ASSUME NEW c \in Clients, NEW d \in Plain, Register(c, d) PROVE IInv'
  <2> USE <1>3
  <2>1. Live' = Live BY DEF Register, Live
  <2>2. TypeOK' BY DEF Register, Heard, IInv, TypeOK, Devices
  <2>3. OneList'
    <3>1. CASE d \in onq
      <4>1. devs' = devs /\ onq' = onq BY <3>1 DEF Register
      <4>2. \A o \in Clients : provider[o] => provider'[o]
        BY DEF Register, IInv, TypeOK
      <4> QED BY <4>1, <4>2, <2>1 DEF Register, IInv, OneList
    <3>2. CASE d \notin onq
      <4>1. devs' = [devs EXCEPT ![c] = @ \cup {d}] BY <3>2 DEF Register
      <4>2. \A o \in Clients : d \notin devs[o] BY <3>2 DEF IInv, OneList
      <4>3. provider'[c] /\ \A o \in Clients : provider[o] => provider'[o]
        <5>1. CASE devs[c] = {} BY <5>1 DEF Register, IInv, TypeOK
        <5>2. CASE devs[c] # {}
          <6>1. PICK e \in Plain : e \in devs[c] BY <5>2 DEF IInv, TypeOK
          <6> QED BY <6>1 DEF Register, IInv, TypeOK, OneList
        <5> QED BY <5>1, <5>2
      <4>4. \A o \in Clients, e \in Plain :
              e \in devs'[o] <=> (e \in devs[o] \/ (o = c /\ e = d))
        BY <4>1 DEF IInv, TypeOK
      <4>5. onq' = onq \cup {d} /\ known' = known \cup {d} /\ c \in Live
        BY DEF Register
      <4>6. ASSUME NEW o \in Clients, NEW e \in Plain, e \in devs'[o]
            PROVE  /\ e \in onq' /\ e \in known'
                   /\ o \in Live' /\ provider'[o]
                   /\ \A q \in Clients : e \in devs'[q] => q = o
        <5>1. CASE e = d BY <5>1, <4>2, <4>3, <4>4, <4>5, <4>6, <2>1
        <5>2. CASE e # d
          BY <5>2, <4>3, <4>4, <4>5, <4>6, <2>1 DEF IInv, OneList
        <5> QED BY <5>1, <5>2
      <4>7. ASSUME NEW e \in onq' PROVE \E o \in Clients : e \in devs'[o]
        BY <4>4, <4>5 DEF IInv, TypeOK, OneList
      <4> QED BY <4>6, <4>7 DEF OneList
    <3> QED BY <3>1, <3>2
  <2>4. IsFiniteSet(watch)' /\ WatchCount' BY SameWatch DEF Register
  <2>5. WatchersLive' BY <2>1 DEF Register, IInv, WatchersLive
  <2>6. OkHasConnection' BY <2>1 DEF Register, IInv, OkHasConnection
  <2> QED BY <2>2, <2>3, <2>4, <2>5, <2>6 DEF IInv
<1>4. ASSUME NEW c \in Clients, NEW d \in Devices, Cfeed(c, d) PROVE IInv'
  <2> USE <1>4
  <2>1. Live' = Live BY DEF Cfeed, Live
  <2>2. PICK n \in 1 .. MaxDup : /\ <<d, c, n>> \notin watch
                                 /\ watch' = watch \cup {<<d, c, n>>}
    BY DEF Cfeed
  <2>3. TypeOK' BY <2>2 DEF Cfeed, Heard, IInv, TypeOK, Devices
  <2>4. OneList' BY <2>1 DEF Cfeed, IInv, OneList
  <2>5. IsFiniteSet(watch)' BY <2>2, FS_AddElement DEF IInv
  <2>6. WatchersLive' BY <2>1, <2>2 DEF Cfeed, IInv, WatchersLive
  <2>7. WatchCount'
    <3> SUFFICES ASSUME NEW o \in Clients
                 PROVE  watched'[o] = Cardinality(EntriesOf(o)')
      BY DEF WatchCount
    <3>1. CASE o = c
      <4>1. EntriesOf(o)' = EntriesOf(o) \cup {<<d, c, n>>}
        BY <3>1, <2>2 DEF EntriesOf
      <4>2. <<d, c, n>> \notin EntriesOf(o) BY <2>2 DEF EntriesOf
      <4>3. Cardinality(EntriesOf(o)') = Cardinality(EntriesOf(o)) + 1
        BY <4>1, <4>2, EntriesFinite, FS_AddElement DEF IInv
      <4> QED BY <3>1, <4>3 DEF Cfeed, IInv, TypeOK, WatchCount
    <3>2. CASE o # c
      <4>1. EntriesOf(o)' = EntriesOf(o) BY <3>2, <2>2 DEF EntriesOf
      <4> QED BY <3>2, <4>1 DEF Cfeed, IInv, TypeOK, WatchCount
    <3> QED BY <3>1, <3>2
  <2>8. OkHasConnection' BY <2>1 DEF Cfeed, IInv, OkHasConnection
  <2> QED BY <2>3, <2>4, <2>5, <2>6, <2>7, <2>8 DEF IInv
<1>5. ASSUME NEW c \in Clients, Imalive(c) PROVE IInv'
  <2> USE <1>5
  <2>1. Live' = Live BY DEF Imalive, Live
  <2>2. TypeOK' BY DEF Imalive, Heard, Mark, IInv, TypeOK
  <2>3. OneList' BY <2>1 DEF Imalive, IInv, OneList
  <2>4. IsFiniteSet(watch)' /\ WatchCount' BY SameWatch DEF Imalive
  <2>5. WatchersLive' BY <2>1 DEF Imalive, IInv, WatchersLive
  <2>6. OkHasConnection' BY <2>1 DEF Imalive, Mark, IInv, TypeOK, OkHasConnection
  <2> QED BY <2>2, <2>3, <2>4, <2>5, <2>6 DEF IInv
<1>6. ASSUME NEW c \in Clients, Talk(c) \/ FallSilent(c) PROVE IInv'
  <2> USE <1>6
  <2>1. Live' = Live BY DEF Talk, FallSilent, Live
  <2>2. TypeOK' BY DEF Talk, FallSilent, Heard, IInv, TypeOK, deviceVars
  <2>3. OneList' BY <2>1 DEF Talk, FallSilent, IInv, OneList, deviceVars
  <2>4. IsFiniteSet(watch)' /\ WatchCount'
    BY SameWatch DEF Talk, FallSilent, deviceVars
  <2>5. WatchersLive' BY <2>1 DEF Talk, FallSilent, IInv, WatchersLive, deviceVars
  <2>6. OkHasConnection'
    BY <2>1 DEF Talk, FallSilent, IInv, OkHasConnection, deviceVars
  <2> QED BY <2>2, <2>3, <2>4, <2>5, <2>6 DEF IInv
<1>7. ASSUME NEW c \in Clients, Disconnect(c) PROVE IInv'
  <2> USE <1>7
  <2>1. Live' = Live BY DEF Disconnect, IInv, TypeOK, Live
  <2>2. TypeOK' BY DEF Disconnect, Heard, Mark, IInv, TypeOK
  <2>3. OneList' BY <2>1 DEF Disconnect, IInv, OneList
  <2>4. IsFiniteSet(watch)' /\ WatchCount' BY SameWatch DEF Disconnect
  <2>5. WatchersLive' BY <2>1 DEF Disconnect, IInv, WatchersLive
  <2>6. OkHasConnection'
    BY <2>1 DEF Disconnect, Mark, IInv, TypeOK, OkHasConnection
  <2> QED BY <2>2, <2>3, <2>4, <2>5, <2>6 DEF IInv
<1>8. ASSUME NEW c \in Clients, Free(c) PROVE IInv'
  <2> USE <1>8
  <2>1. Live' = Live \ {c} BY DEF Free, IInv, TypeOK, Live
  <2>2. /\ watch' = watch \ EntriesOf(c)
        /\ watched' = [watched EXCEPT ![c] = 0]
    BY FreeUnwatches
  <2>3. /\ devs' = [devs EXCEPT ![c] = {}]
        /\ onq' = onq \ devs[c]
        /\ collector' = [d \in Devices |-> IF d \in devs[c] THEN NoClient
                                                           ELSE collector[d]]
    BY FreeUnlinks
  <2>4. TypeOK' BY <2>2, <2>3 DEF Free, Mark, IInv, TypeOK
  <2>5. OneList'
    <3>1. \A o \in Clients : devs'[o] = IF o = c THEN {} ELSE devs[o]
      BY <2>3 DEF IInv, TypeOK
    <3>2. \A o \in Clients : o # c => provider'[o] = provider[o]
      BY DEF Free, IInv, TypeOK
    <3>3. known' = known BY DEF Free
    <3>4. ASSUME NEW o \in Clients, NEW d \in Plain, d \in devs'[o]
          PROVE  /\ d \in onq' /\ d \in known'
                 /\ o \in Live' /\ provider'[o]
                 /\ \A q \in Clients : d \in devs'[q] => q = o
      <4>1. o # c /\ d \in devs[o] BY <3>1, <3>4
      <4>2. d \notin devs[c] BY <4>1 DEF IInv, OneList
      <4> QED BY <4>1, <4>2, <3>1, <3>2, <3>3, <2>1, <2>3 DEF IInv, OneList
    <3>5. ASSUME NEW d \in onq' PROVE \E o \in Clients : d \in devs'[o]
      BY <3>1, <2>3 DEF IInv, OneList
    <3> QED BY <3>4, <3>5 DEF OneList
  <2>6. IsFiniteSet(watch)' BY <2>2, FS_Difference DEF IInv
  <2>7. WatchersLive' BY <2>1, <2>2 DEF Free, IInv, WatchersLive, EntriesOf
  <2>8. WatchCount'
    <3> SUFFICES ASSUME NEW o \in Clients
                 PROVE  watched'[o] = Cardinality(EntriesOf(o)')
      BY DEF WatchCount
    <3>1. CASE o = c
      <4>1. EntriesOf(o)' = {} BY <3>1, <2>2 DEF EntriesOf
      <4> QED BY <3>1, <4>1, <2>2, FS_EmptySet DEF IInv, TypeOK
    <3>2. CASE o # c
      <4>1. EntriesOf(o)' = EntriesOf(o) BY <3>2, <2>2 DEF EntriesOf
      <4> QED BY <3>2, <4>1, <2>2 DEF IInv, TypeOK, WatchCount
    <3> QED BY <3>1, <3>2
  <2>9. OkHasConnection'
    <3> SUFFICES ASSUME NEW d \in Trackers, status'[d] = "ok"
                 PROVE  \E o \in Live' : collDev'[o] = d
      BY DEF OkHasConnection
    <3>1. collDev[c] # d /\ status[d] = "ok" BY DEF Free, Mark
    <3>2. PICK o \in Live : collDev[o] = d BY <3>1 DEF IInv, OkHasConnection
    <3> QED BY <3>1, <3>2, <2>1 DEF Free, IInv, TypeOK
  <2> QED BY <2>4, <2>5, <2>6, <2>7, <2>8, <2>9 DEF IInv
<1>9. ASSUME HealthTimer PROVE IInv'
  <2> USE <1>9 DEF clientVars
  <2>1. Live' = Live BY DEF HealthTimer, Live
  <2>2. TypeOK' BY DEF HealthTimer, IInv, TypeOK
  <2>3. OneList' BY <2>1 DEF HealthTimer, IInv, OneList
  <2>4. IsFiniteSet(watch)' /\ WatchCount' BY SameWatch DEF HealthTimer
  <2>5. WatchersLive' BY <2>1 DEF HealthTimer, IInv, WatchersLive
  <2>6. OkHasConnection' BY <2>1 DEF HealthTimer, IInv, OkHasConnection
  <2> QED BY <2>2, <2>3, <2>4, <2>5, <2>6 DEF IInv
<1>10. ASSUME Restart PROVE IInv'
  <2> USE <1>10
  <2>1. TypeOK' BY DEF Restart, IInv, TypeOK, Devices
  <2>2. OneList' BY DEF Restart, OneList
  <2>3. IsFiniteSet(watch)' BY FS_EmptySet DEF Restart
  <2>4. WatchersLive' BY DEF Restart, WatchersLive
  <2>5. WatchCount'
    <3>1. \A c \in Clients : EntriesOf(c)' = {} BY DEF Restart, EntriesOf
    <3> QED BY <3>1, FS_EmptySet DEF Restart, WatchCount
  <2>6. OkHasConnection' BY DEF Restart, OkHasConnection
  <2> QED BY <2>1, <2>2, <2>3, <2>4, <2>5, <2>6 DEF IInv
<1>11. CASE UNCHANGED vars
  <2> USE <1>11 DEF vars, clientVars, deviceVars
  <2>1. Live' = Live BY DEF Live
  <2>2. TypeOK' BY DEF IInv, TypeOK
  <2>3. OneList' BY <2>1 DEF IInv, OneList
  <2>4. IsFiniteSet(watch)' /\ WatchCount' BY SameWatch
  <2>5. WatchersLive' BY <2>1 DEF IInv, WatchersLive
  <2>6. OkHasConnection' BY <2>1 DEF IInv, OkHasConnection
  <2> QED BY <2>2, <2>3, <2>4, <2>5, <2>6 DEF IInv
<1> QED
  BY <1>1, <1>2, <1>3, <1>4, <1>5, <1>6, <1>7, <1>8, <1>9, <1>10, <1>11
  DEF Next, Command, Error, Drained

\* The inductive invariant holds in every reachable state.
THEOREM Invariance == Spec => []IInv
<1> QED BY InitIInv, StepIInv, PTL DEF Spec

\* The registry's variables keep their types.
THEOREM TypeCorrect == Spec => []TypeOK
<1>1. IInv => TypeOK BY DEF IInv
<1> QED BY <1>1, Invariance, PTL

\* A device is linked on at most one client's list, exactly when its onq flag
\* says so, and only on the list of a live provider.
THEOREM ListIntegrity == Spec => []OneList
<1>1. IInv => OneList BY DEF IInv
<1> QED BY <1>1, Invariance, PTL

\* No watchers list names a freed client.
THEOREM NoFreedWatcher == Spec => []WatchersLive
<1>1. IInv => WatchersLive BY DEF IInv
<1> QED BY <1>1, Invariance, PTL

\* client->watched is the number of the client's entries.
THEOREM CountIsExact == Spec => []WatchCount
<1>1. IInv => WatchCount BY DEF IInv
<1> QED BY <1>1, Invariance, PTL

\* A tracking device that says OK is carried by a live connection.
THEOREM OkIsLive == Spec => []OkHasConnection
<1>1. IInv => OkHasConnection BY DEF IInv
<1> QED BY <1>1, Invariance, PTL

-----------------------------------------------------------------------------
(* Ownership of the devices that no connection takes over from another.  Of  *)
(* these, the ones a client is the collector of are those on its list, so    *)
(* the list walk of buf_error_cb clears exactly the right pointers.          *)

\* The collector pointer and the devices list agree.
ListIsOwner ==
  /\ \A d \in Uncontended : collector[d] # NoClient => d \in devs[collector[d]]
  /\ \A c \in Clients, d \in Uncontended : d \in devs[c] => collector[d] = c

\* The initial states agree.
LEMMA InitListIsOwner == Init => ListIsOwner
BY RegistryAssumption DEF Init, ListIsOwner, Devices, Uncontended

\* A step that changes neither the lists nor the pointers of registered devices.
LEMMA SameOwners ==
  ASSUME ListIsOwner, UNCHANGED devs,
         \A d \in Uncontended : collector'[d] = collector[d]
  PROVE  ListIsOwner'
BY DEF ListIsOwner

\* Every action keeps list and pointer in agreement.
LEMMA StepListIsOwner ==
  ASSUME IInv, ListIsOwner, [Next]_vars
  PROVE  ListIsOwner'
<1> USE RegistryAssumption DEF Uncontended
<1>1. ASSUME NEW c \in Clients, Accept(c) PROVE ListIsOwner'
  <2>1. devs[c] = {} BY <1>1 DEF Accept, IInv, OneList, TypeOK, Live
  <2>2. devs' = devs BY <1>1, <2>1 DEF Accept, IInv, TypeOK
  <2> QED BY <1>1, <2>2, SameOwners DEF Accept, deviceVars
<1>2. ASSUME NEW c \in Clients, NEW d \in Trackers, Client(c, d) PROVE ListIsOwner'
  <2>1. \A e \in Uncontended : collector'[e] = collector[e]
    BY <1>2 DEF Client, IInv, TypeOK, Devices
  <2> QED BY <1>2, <2>1, SameOwners DEF Client
<1>3. ASSUME NEW c \in Clients, NEW d \in Plain, Register(c, d) PROVE ListIsOwner'
  <2>1. \A e \in Plain : collector'[e] = IF e = d THEN c ELSE collector[e]
    BY <1>3 DEF Register, IInv, TypeOK, Devices
  <2>2. CASE d \in Contended
    <3>1. \A e \in Uncontended : collector'[e] = collector[e] BY <2>1, <2>2
    <3>2. \A o \in Clients, e \in Uncontended : e \in devs'[o] <=> e \in devs[o]
      BY <1>3, <2>2 DEF Register, IInv, TypeOK
    <3>3. \A e \in Uncontended : collector[e] # NoClient => collector[e] \in Clients
      BY DEF IInv, TypeOK, Devices
    <3> QED BY <3>1, <3>2, <3>3 DEF ListIsOwner
  <2>3. CASE d \in Uncontended
    <3>1. collector[d] \in {NoClient, c} BY <1>3, <2>3 DEF Register
    <3>2. d \in onq <=> d \in devs[c]
      BY <2>3, <3>1 DEF IInv, OneList, ListIsOwner
    <3>3. \A o \in Clients, e \in Plain :
            e \in devs'[o] <=> (e \in devs[o] \/ (o = c /\ e = d))
      BY <1>3, <3>2 DEF Register, IInv, TypeOK
    <3>4. \A o \in Clients : d \in devs[o] => o = c
      BY <2>3, <3>1 DEF ListIsOwner
    <3>5. ASSUME NEW e \in Uncontended, collector'[e] # NoClient
          PROVE  e \in devs'[collector'[e]]
      <4>1. CASE e = d BY <4>1, <2>1, <3>3
      <4>2. CASE e # d
        <5>1. collector'[e] = collector[e] BY <4>2, <2>1
        <5>2. collector[e] \in Clients BY <5>1, <3>5 DEF IInv, TypeOK, Devices
        <5>3. e \in devs[collector[e]] BY <5>1, <3>5 DEF ListIsOwner
        <5> QED BY <5>1, <5>2, <5>3, <3>3
      <4> QED BY <4>1, <4>2
    <3>6. \A o \in Clients, e \in Uncontended : e \in devs'[o] => collector'[e] = o
      BY <2>1, <3>3, <3>4 DEF ListIsOwner
    <3> QED BY <3>5, <3>6 DEF ListIsOwner
  <2> QED BY <2>2, <2>3
<1>4. ASSUME NEW c \in Clients, NEW d \in Devices, Cfeed(c, d) PROVE ListIsOwner'
  BY <1>4, SameOwners DEF Cfeed
<1>5. ASSUME NEW c \in Clients,
             Imalive(c) \/ Talk(c) \/ FallSilent(c) \/ Disconnect(c)
      PROVE  ListIsOwner'
  BY <1>5, SameOwners DEF Imalive, Talk, FallSilent, Disconnect, deviceVars
<1>6. ASSUME NEW c \in Clients, Free(c) PROVE ListIsOwner'
  <2>0. devs' = [devs EXCEPT ![c] = {}]
    BY <1>6, FreeUnlinks
  <2>1. \A o \in Clients : devs'[o] = IF o = c THEN {} ELSE devs[o]
    BY <2>0 DEF IInv, TypeOK
  <2>2. \A d \in Uncontended : collector'[d] = IF d \in devs[c] THEN NoClient
                                                               ELSE collector[d]
    BY <1>6, FreeUnlinks DEF Devices
  <2>3. \A d \in Uncontended : collector'[d] # NoClient => d \in devs'[collector'[d]]
    BY <2>1, <2>2 DEF IInv, TypeOK, ListIsOwner, Devices
  <2>4. \A o \in Clients, d \in Uncontended : d \in devs'[o] => collector'[d] = o
    BY <2>1, <2>2 DEF ListIsOwner
  <2> QED BY <2>3, <2>4 DEF ListIsOwner
<1>7. CASE HealthTimer
  BY <1>7, SameOwners DEF HealthTimer, clientVars
<1>8. CASE Restart
  BY <1>8 DEF Restart, ListIsOwner, Devices
<1>9. CASE UNCHANGED vars
  BY <1>9, SameOwners DEF vars, clientVars, deviceVars
<1> QED
  BY <1>1, <1>2, <1>3, <1>4, <1>5, <1>6, <1>7, <1>8, <1>9
  DEF Next, Command, Error, Drained

\* List and pointer always agree.
THEOREM OwnerInvariance == Spec => [](IInv /\ ListIsOwner)
<1>1. Init => IInv /\ ListIsOwner BY InitIInv, InitListIsOwner
<1>2. (IInv /\ ListIsOwner) /\ [Next]_vars => (IInv /\ ListIsOwner)'
  BY StepIInv, StepListIsOwner
<1> QED BY <1>1, <1>2, PTL DEF Spec

\* No registered device that is not taken over points to a freed client: a chg is
\* forwarded to a connection that exists.
THEOREM ServedOnlyByLive == Spec => []ServedByLive
<1>1. IInv /\ ListIsOwner => ServedByLive
  BY DEF IInv, TypeOK, OneList, ListIsOwner, ServedByLive, Devices, Uncontended
<1> QED BY <1>1, OwnerInvariance, PTL

\* Free takes away exactly the devices whose collector is the freed client.
LEMMA FreeIsLeave ==
  ASSUME IInv, ListIsOwner, NEW c \in Clients, Free(c)
  PROVE  /\ Live' = Live \ {c}
         /\ \A d \in Uncontended : collector'[d] = IF collector[d] = c THEN NoClient
                                                                    ELSE collector[d]
<1>1. Live' = Live \ {c} BY DEF Free, IInv, TypeOK, Live
<1>2. collector' = [d \in Devices |-> IF d \in devs[c] THEN NoClient
                                                      ELSE collector[d]]
  BY FreeUnlinks
<1>3. \A d \in Uncontended : d \in devs[c] <=> collector[d] = c
  BY RegistryAssumption DEF ListIsOwner
<1> QED BY <1>1, <1>2, <1>3 DEF Devices, Uncontended

\* Every step of the registry is a step of Ownership or leaves it unchanged.
LEMMA StepOwnership ==
  ASSUME IInv, ListIsOwner, [Next]_vars
  PROVE  [O!OwnNext]_(O!ownVars)
<1> DEFINE server == [d \in Uncontended |-> collector[d]]
<1> USE RegistryAssumption DEF Uncontended
<1>1. ASSUME NEW c \in Clients, Accept(c) PROVE O!Connect(c)
  <2>1. c \notin Live /\ Live' = Live \cup {c}
    BY <1>1 DEF Accept, Live, IInv, TypeOK
  <2>2. server' = server BY <1>1 DEF Accept, deviceVars
  <2> QED BY <2>1, <2>2 DEF O!Connect
<1>2. ASSUME NEW c \in Clients, NEW d \in Plain, Register(c, d)
      PROVE  IF d \in Uncontended THEN O!Claim(c, d) ELSE UNCHANGED O!ownVars
  <2>1. c \in Live /\ Live' = Live BY <1>2 DEF Register, Live
  <2>2. \A e \in Plain : collector'[e] = IF e = d THEN c ELSE collector[e]
    BY <1>2 DEF Register, IInv, TypeOK, Devices
  <2>3. CASE d \in Uncontended
    <3>1. server' = [server EXCEPT ![d] = c] BY <2>2
    <3> QED BY <2>1, <2>3, <3>1 DEF O!Claim
  <2>4. CASE d \notin Uncontended
    <3>1. server' = server BY <2>2, <2>4
    <3> QED BY <2>1, <2>4, <3>1 DEF O!ownVars
  <2> QED BY <2>3, <2>4
<1>3. ASSUME NEW c \in Clients, Free(c) PROVE O!Leave({c})
  <2>1. server' = [d \in Uncontended |-> IF server[d] \in {c} THEN NoClient ELSE server[d]]
    BY <1>3, FreeIsLeave
  <2>2. Live' = Live \ {c} BY <1>3, FreeIsLeave
  <2> QED BY <2>1, <2>2 DEF O!Leave
<1>4. ASSUME Restart PROVE O!Leave(Live)
  <2>1. Live' = Live \ Live BY <1>4 DEF Restart, Live
  <2>2. \A d \in Uncontended : collector[d] # NoClient => collector[d] \in Live
    BY DEF IInv, TypeOK, OneList, ListIsOwner, Devices
  <2>3. \A d \in Uncontended : collector'[d] = NoClient BY <1>4 DEF Restart, Devices
  <2>4. server' = [d \in Uncontended |-> IF server[d] \in Live THEN NoClient ELSE server[d]]
    BY <2>2, <2>3
  <2> QED BY <2>1, <2>4 DEF O!Leave
<1>5. ASSUME NEW c \in Clients, NEW d \in Trackers, Client(c, d)
      PROVE  UNCHANGED O!ownVars
  <2>1. Live' = Live BY <1>5 DEF Client, Live
  <2>2. \A e \in Uncontended : collector'[e] = collector[e]
    BY <1>5 DEF Client, IInv, TypeOK, Devices
  <2>3. server' = server BY <2>2
  <2> QED BY <2>1, <2>3 DEF O!ownVars
<1>6. ASSUME NEW c \in Clients, NEW d \in Devices, Cfeed(c, d)
      PROVE  UNCHANGED O!ownVars
  BY <1>6 DEF Cfeed, O!ownVars, Live
<1>7. ASSUME NEW c \in Clients,
             Imalive(c) \/ Talk(c) \/ FallSilent(c)
      PROVE  UNCHANGED O!ownVars
  BY <1>7 DEF Imalive, Talk, FallSilent, deviceVars, O!ownVars, Live
<1>8. ASSUME NEW c \in Clients, Disconnect(c) PROVE UNCHANGED O!ownVars
  <2>1. Live' = Live BY <1>8 DEF Disconnect, IInv, TypeOK, Live
  <2>2. server' = server BY <1>8 DEF Disconnect
  <2> QED BY <2>1, <2>2 DEF O!ownVars
<1>9. CASE HealthTimer
  BY <1>9 DEF HealthTimer, clientVars, O!ownVars, Live
<1>10. CASE UNCHANGED vars
  BY <1>10 DEF vars, clientVars, deviceVars, O!ownVars, Live
<1> QED
  BY <1>1, <1>2, <1>3, <1>4, <1>5, <1>6, <1>7, <1>8, <1>9, <1>10
  DEF Next, Command, Error, Drained, O!OwnNext

\* For the devices that are not taken over, gnhastd's lists and pointers implement
\* Ownership: a device stays with the connection that registered it until that
\* connection ends.
THEOREM RegistryImplementsOwnership == Spec => ImplementsOwnership
<1>1. Init => O!OwnInit
  BY RegistryAssumption DEF Init, O!OwnInit, Live, Devices, Uncontended
<1>2. (IInv /\ ListIsOwner) /\ [Next]_vars => [O!OwnNext]_(O!ownVars)
  BY StepOwnership
<1> QED BY <1>1, <1>2, OwnerInvariance, PTL DEF Spec, ImplementsOwnership, O!OwnSpec

\* A device that is not taken over is orphaned only by the end of its own collector.
THEOREM OrphansHaveDeadOwner == Spec => OrphanedByOwner
<1>1. ASSUME IInv, ListIsOwner, [Next]_vars, NEW d \in Uncontended,
             collector[d] # NoClient, collector'[d] = NoClient
      PROVE  conn'[collector[d]] = "free"
  <2>1. collector[d] \in Live /\ collector[d] \in Clients
    BY <1>1 DEF IInv, TypeOK, OneList, ListIsOwner, Devices, Uncontended
  <2>2. [O!OwnNext]_(O!ownVars) BY <1>1, StepOwnership
  <2>3. collector[d] \notin Live'
    BY <1>1, <2>1, <2>2, RegistryAssumption
    DEF O!OwnNext, O!ownVars, O!Connect, O!Claim, O!Leave
  <2> QED BY <2>1, <2>3 DEF Live
<1>2. (IInv /\ ListIsOwner) /\ [Next]_vars
      => [\A d \in Uncontended : collector[d] # NoClient /\ collector'[d] = NoClient
                           => conn'[collector[d]] = "free"]_vars
  BY <1>1
<1> QED BY <1>2, OwnerInvariance, PTL DEF Spec, OrphanedByOwner
=============================================================================
