--------------------------- MODULE LifecycleProofs ---------------------------
(***************************************************************************)
(* Proofs about Lifecycle, for any configurations, users and bounds.       *)
(***************************************************************************)
EXTENDS Lifecycle, TLAPS

(* The steps of the specification, one by one. *)
LEMMA NextCases ==
    ASSUME Next
    PROVE  \/ \E c \in HostConfig : Configure(c)
           \/ Migrate \/ Migrated \/ ImportRead \/ ImportLegacyAppConfig
           \/ GetAppConfig \/ Publish \/ NoStandalone \/ StartStandalone
           \/ BadSecret \/ PublishStore \/ SwapPool \/ ConfigureFails
           \/ (\E u \in User : Begin(u)) \/ (\E u \in User : End(u))
           \/ ScanGoesOn \/ (\E c \in SavedConfig : PutConfig(c))
           \/ Shutdown \/ Crash
  BY DEF Next, ConfigureStep

(* The bounds are numbers. *)
LEMMA Bounds == Files \in Nat /\ MaxCalls \in Nat /\ MaxPuts \in Nat /\ MaxFaults \in Nat
  BY NumberAssumption

(* The order of publication has no gaps. *)
LEMMA AfterType ==
    ASSUME NEW p \in Publishing
    PROVE  After[p] \in Publishing \cup {"standalone"}
  BY DEF After, Publishing

(* Every step keeps the types (the actions of Lifecycle). *)
LEMMA TypeStep ==
    ASSUME TypeOK, [Next]_vars
    PROVE  TypeOK'
  <1> USE ConfigAssumption, ValueAssumption, Bounds, UserAssumption
  <1> USE DEF TypeOK, Call, Part, Before, Publishing, vars, dbVars, pubVars, callVars, userVars
  <1>1. ASSUME NEW c \in HostConfig, Configure(c) PROVE TypeOK'
    BY <1>1 DEF Configure
  <1>2. CASE Migrate
    BY <1>2 DEF Migrate
  <1>3. CASE Migrated
    BY <1>3 DEF Migrated
  <1>4. CASE ImportRead
    BY <1>4 DEF ImportRead
  <1>5. CASE ImportLegacyAppConfig
    BY <1>5 DEF ImportLegacyAppConfig, GiveUp
  <1>6. CASE GetAppConfig
    BY <1>6 DEF GetAppConfig
  <1>7. CASE Publish
    BY <1>7, AfterType DEF Publish
  <1>8. CASE NoStandalone
    BY <1>8 DEF NoStandalone
  <1>9. CASE StartStandalone
    BY <1>9 DEF StartStandalone, Config
  <1>10. CASE BadSecret
    BY <1>10 DEF BadSecret
  <1>11. CASE PublishStore
    BY <1>11 DEF PublishStore
  <1>12. CASE SwapPool
    BY <1>12 DEF SwapPool
  <1>13. CASE ConfigureFails
    BY <1>13 DEF ConfigureFails, GiveUp
  <1>14. ASSUME NEW u \in User, Begin(u) PROVE TypeOK'
    BY <1>14 DEF Begin, LoadPart, First
  <1>15. ASSUME NEW u \in User, End(u) PROVE TypeOK'
    BY <1>15 DEF End
  <1>16. CASE ScanGoesOn
    <2>1. ASSUME NEW n \in {"worker", "cache"}, LoadPart("scan", n), ScanGoesOn
          PROVE  TypeOK'
      BY <2>1 DEF ScanGoesOn, LoadPart
    <2> QED
      BY <1>16, <2>1 DEF ScanGoesOn
  <1>17. ASSUME NEW c \in SavedConfig, PutConfig(c) PROVE TypeOK'
    BY <1>17 DEF PutConfig
  <1>18. CASE Shutdown
    BY <1>18 DEF Shutdown
  <1>19. CASE Crash
    BY <1>19 DEF Crash
  <1>20. CASE UNCHANGED vars
    BY <1>20
  <1> QED
    BY NextCases, <1>1, <1>2, <1>3, <1>4, <1>5, <1>6, <1>7, <1>8, <1>9, <1>10, <1>11, <1>12, <1>13, <1>14, <1>15, <1>16, <1>17, <1>18, <1>19, <1>20

(* A call's number is new to pointers and users until it publishes.          *)
LEMMA OrderedStep ==
    ASSUME TypeOK, TypeOK', Ordered, [Next]_vars
    PROVE  Ordered'
  <1> USE ConfigAssumption, ValueAssumption, Bounds, UserAssumption
  <1> USE DEF TypeOK, Call, Part, Before, Publishing, vars, dbVars, pubVars, callVars, userVars, Ordered
  <1>1. ASSUME NEW c \in HostConfig, Configure(c) PROVE Ordered'
    <2> HIDE DEF Part
    <2>1. /\ gen \in Nat /\ gen' = gen + 1 /\ pc' = "migrate"
          /\ ptr' = ptr /\ using' = using /\ poolPtr' = poolPtr /\ leaked' = leaked
      BY <1>1 DEF Configure
    <2>2. \A n \in Part : ptr[n] \in Nat /\ ptr[n] <= gen
      OBVIOUS
    <2>3. \A u \in User : using[u] \in Nat /\ using[u] <= gen
      OBVIOUS
    <2>4. poolPtr \in Nat /\ poolPtr <= gen /\ poolPtr \notin leaked
      OBVIOUS
    <2>5. \A g \in leaked : g \in Nat /\ g <= gen
      OBVIOUS
    <2> QED
      BY <2>1, <2>2, <2>3, <2>4, <2>5
  <1>2. CASE Migrate
    BY <1>2 DEF Migrate
  <1>3. CASE Migrated
    BY <1>3 DEF Migrated
  <1>4. CASE ImportRead
    BY <1>4 DEF ImportRead
  <1>5. CASE ImportLegacyAppConfig
    BY <1>5 DEF ImportLegacyAppConfig, GiveUp
  <1>6. CASE GetAppConfig
    BY <1>6 DEF GetAppConfig
  <1>7. CASE Publish
    BY <1>7 DEF Publish, After
  <1>8. CASE NoStandalone
    BY <1>8 DEF NoStandalone
  <1>9. CASE StartStandalone
    BY <1>9 DEF StartStandalone
  <1>10. CASE BadSecret
    BY <1>10 DEF BadSecret
  <1>11. CASE PublishStore
    BY <1>11 DEF PublishStore
  <1>12. CASE SwapPool
    BY <1>12 DEF SwapPool
  <1>13. CASE ConfigureFails
    BY <1>13 DEF ConfigureFails, GiveUp
  <1>14. ASSUME NEW u \in User, Begin(u) PROVE Ordered'
    BY <1>14 DEF Begin, LoadPart, First
  <1>15. ASSUME NEW u \in User, End(u) PROVE Ordered'
    BY <1>15 DEF End
  <1>16. CASE ScanGoesOn
    <2>1. ASSUME NEW n \in {"worker", "cache"}, LoadPart("scan", n), ScanGoesOn
          PROVE  Ordered'
      BY <2>1 DEF ScanGoesOn, LoadPart
    <2> QED
      BY <1>16, <2>1 DEF ScanGoesOn
  <1>17. ASSUME NEW c \in SavedConfig, PutConfig(c) PROVE Ordered'
    BY <1>17 DEF PutConfig
  <1>18. CASE Shutdown
    BY <1>18 DEF Shutdown
  <1>19. CASE Crash
    BY <1>19 DEF Crash
  <1>20. CASE UNCHANGED vars
    BY <1>20
  <1> QED
    BY NextCases, <1>1, <1>2, <1>3, <1>4, <1>5, <1>6, <1>7, <1>8, <1>9, <1>10, <1>11, <1>12, <1>13, <1>14, <1>15, <1>16, <1>17, <1>18, <1>19, <1>20

(* Every Close in Configure closes the pool it should.                       *)
LEMMA OpenPoolsStep ==
    ASSUME TypeOK, TypeOK', Ordered, OpenPools, [Next]_vars
    PROVE  OpenPools'
  <1> USE ConfigAssumption, ValueAssumption, Bounds, UserAssumption
  <1> USE DEF TypeOK, Call, Part, Before, Publishing, vars, dbVars, pubVars, callVars, userVars, Ordered, OpenPools
  <1>1. ASSUME NEW c \in HostConfig, Configure(c) PROVE OpenPools'
    BY <1>1 DEF Configure
  <1>2. CASE Migrate
    BY <1>2 DEF Migrate
  <1>3. CASE Migrated
    BY <1>3 DEF Migrated
  <1>4. CASE ImportRead
    BY <1>4 DEF ImportRead
  <1>5. CASE ImportLegacyAppConfig
    BY <1>5 DEF ImportLegacyAppConfig, GiveUp
  <1>6. CASE GetAppConfig
    BY <1>6 DEF GetAppConfig
  <1>7. CASE Publish
    BY <1>7 DEF Publish, After
  <1>8. CASE NoStandalone
    BY <1>8 DEF NoStandalone
  <1>9. CASE StartStandalone
    BY <1>9 DEF StartStandalone
  <1>10. CASE BadSecret
    BY <1>10 DEF BadSecret
  <1>11. CASE PublishStore
    BY <1>11 DEF PublishStore
  <1>12. CASE SwapPool
    BY <1>12 DEF SwapPool
  <1>13. CASE ConfigureFails
    BY <1>13 DEF ConfigureFails, GiveUp
  <1>14. ASSUME NEW u \in User, Begin(u) PROVE OpenPools'
    BY <1>14 DEF Begin, LoadPart, First
  <1>15. ASSUME NEW u \in User, End(u) PROVE OpenPools'
    BY <1>15 DEF End
  <1>16. CASE ScanGoesOn
    BY <1>16 DEF ScanGoesOn, LoadPart
  <1>17. ASSUME NEW c \in SavedConfig, PutConfig(c) PROVE OpenPools'
    BY <1>17 DEF PutConfig
  <1>18. CASE Shutdown
    BY <1>18 DEF Shutdown
  <1>19. CASE Crash
    BY <1>19 DEF Crash
  <1>20. CASE UNCHANGED vars
    BY <1>20
  <1> QED
    BY NextCases, <1>1, <1>2, <1>3, <1>4, <1>5, <1>6, <1>7, <1>8, <1>9, <1>10, <1>11, <1>12, <1>13, <1>14, <1>15, <1>16, <1>17, <1>18, <1>19, <1>20

(* The pointers a call has stored stay its own until it returns.             *)
LEMMA ProgressStep ==
    ASSUME TypeOK, TypeOK', Progress, [Next]_vars
    PROVE  Progress'
  <1> USE ConfigAssumption, ValueAssumption, Bounds, UserAssumption
  <1> USE DEF TypeOK, Call, Part, Before, Publishing, vars, dbVars, pubVars, callVars, userVars, Progress, PublishedBy
  <1>1. ASSUME NEW c \in HostConfig, Configure(c) PROVE Progress'
    BY <1>1 DEF Configure
  <1>2. CASE Migrate
    BY <1>2 DEF Migrate
  <1>3. CASE Migrated
    BY <1>3 DEF Migrated
  <1>4. CASE ImportRead
    BY <1>4 DEF ImportRead
  <1>5. CASE ImportLegacyAppConfig
    BY <1>5 DEF ImportLegacyAppConfig, GiveUp
  <1>6. CASE GetAppConfig
    BY <1>6 DEF GetAppConfig
  <1>7. CASE Publish
    BY <1>7 DEF Publish, After
  <1>8. CASE NoStandalone
    BY <1>8 DEF NoStandalone
  <1>9. CASE StartStandalone
    BY <1>9 DEF StartStandalone
  <1>10. CASE BadSecret
    BY <1>10 DEF BadSecret
  <1>11. CASE PublishStore
    BY <1>11 DEF PublishStore
  <1>12. CASE SwapPool
    BY <1>12 DEF SwapPool
  <1>13. CASE ConfigureFails
    BY <1>13 DEF ConfigureFails, GiveUp
  <1>14. ASSUME NEW u \in User, Begin(u) PROVE Progress'
    BY <1>14 DEF Begin, LoadPart, First
  <1>15. ASSUME NEW u \in User, End(u) PROVE Progress'
    BY <1>15 DEF End
  <1>16. CASE ScanGoesOn
    BY <1>16 DEF ScanGoesOn, LoadPart
  <1>17. ASSUME NEW c \in SavedConfig, PutConfig(c) PROVE Progress'
    BY <1>17 DEF PutConfig
  <1>18. CASE Shutdown
    BY <1>18 DEF Shutdown
  <1>19. CASE Crash
    BY <1>19 DEF Crash
  <1>20. CASE UNCHANGED vars
    BY <1>20
  <1> QED
    BY NextCases, <1>1, <1>2, <1>3, <1>4, <1>5, <1>6, <1>7, <1>8, <1>9, <1>10, <1>11, <1>12, <1>13, <1>14, <1>15, <1>16, <1>17, <1>18, <1>19, <1>20

(* No Close hits a published pool: a call that gives up has published        *)
(* nothing, and at the swap everything published is the new call's.          *)
LEMMA PublishedStep ==
    ASSUME TypeOK, TypeOK', Ordered, OpenPools, Progress, PublishedIsOpen, [Next]_vars
    PROVE  PublishedIsOpen'
  <1> USE ConfigAssumption, ValueAssumption, Bounds, UserAssumption
  <1> USE DEF TypeOK, Call, Part, Before, Publishing, vars, dbVars, pubVars, callVars, userVars, Ordered, OpenPools, Progress, PublishedBy, PublishedIsOpen
  <1>1. ASSUME NEW c \in HostConfig, Configure(c) PROVE PublishedIsOpen'
    BY <1>1 DEF Configure
  <1>2. CASE Migrate
    BY <1>2 DEF Migrate
  <1>3. CASE Migrated
    BY <1>3 DEF Migrated
  <1>4. CASE ImportRead
    BY <1>4 DEF ImportRead
  <1>5. CASE ImportLegacyAppConfig
    BY <1>5 DEF ImportLegacyAppConfig, GiveUp
  <1>6. CASE GetAppConfig
    BY <1>6 DEF GetAppConfig
  <1>7. CASE Publish
    BY <1>7 DEF Publish, After
  <1>8. CASE NoStandalone
    BY <1>8 DEF NoStandalone
  <1>9. CASE StartStandalone
    BY <1>9 DEF StartStandalone
  <1>10. CASE BadSecret
    BY <1>10 DEF BadSecret
  <1>11. CASE PublishStore
    BY <1>11 DEF PublishStore
  <1>12. CASE SwapPool
    BY <1>12 DEF SwapPool
  <1>13. CASE ConfigureFails
    BY <1>13 DEF ConfigureFails, GiveUp
  <1>14. ASSUME NEW u \in User, Begin(u) PROVE PublishedIsOpen'
    BY <1>14 DEF Begin, LoadPart, First
  <1>15. ASSUME NEW u \in User, End(u) PROVE PublishedIsOpen'
    BY <1>15 DEF End
  <1>16. CASE ScanGoesOn
    BY <1>16 DEF ScanGoesOn, LoadPart
  <1>17. ASSUME NEW c \in SavedConfig, PutConfig(c) PROVE PublishedIsOpen'
    BY <1>17 DEF PutConfig
  <1>18. CASE Shutdown
    BY <1>18 DEF Shutdown
  <1>19. CASE Crash
    BY <1>19 DEF Crash
  <1>20. CASE UNCHANGED vars
    BY <1>20
  <1> QED
    BY NextCases, <1>1, <1>2, <1>3, <1>4, <1>5, <1>6, <1>7, <1>8, <1>9, <1>10, <1>11, <1>12, <1>13, <1>14, <1>15, <1>16, <1>17, <1>18, <1>19, <1>20

(* What a user loads is open, so that only a later swap can close it.         *)
LEMMA CrossedStep ==
    ASSUME TypeOK, TypeOK', Ordered, PublishedIsOpen, FailsOnlyAcrossSwap, [Next]_vars
    PROVE  FailsOnlyAcrossSwap'
  <1> USE ConfigAssumption, ValueAssumption, Bounds, UserAssumption
  <1> USE DEF TypeOK, Call, Part, Before, Publishing, vars, dbVars, pubVars, callVars, userVars, Ordered, PublishedIsOpen, FailsOnlyAcrossSwap
  <1>1. ASSUME NEW c \in HostConfig, Configure(c) PROVE FailsOnlyAcrossSwap'
    BY <1>1 DEF Configure
  <1>2. CASE Migrate
    BY <1>2 DEF Migrate
  <1>3. CASE Migrated
    BY <1>3 DEF Migrated
  <1>4. CASE ImportRead
    BY <1>4 DEF ImportRead
  <1>5. CASE ImportLegacyAppConfig
    BY <1>5 DEF ImportLegacyAppConfig, GiveUp
  <1>6. CASE GetAppConfig
    BY <1>6 DEF GetAppConfig
  <1>7. CASE Publish
    BY <1>7 DEF Publish, After
  <1>8. CASE NoStandalone
    BY <1>8 DEF NoStandalone
  <1>9. CASE StartStandalone
    BY <1>9 DEF StartStandalone
  <1>10. CASE BadSecret
    BY <1>10 DEF BadSecret
  <1>11. CASE PublishStore
    BY <1>11 DEF PublishStore
  <1>12. CASE SwapPool
    BY <1>12 DEF SwapPool
  <1>13. CASE ConfigureFails
    BY <1>13 DEF ConfigureFails, GiveUp
  <1>14. ASSUME NEW u \in User, Begin(u) PROVE FailsOnlyAcrossSwap'
    BY <1>14 DEF Begin, LoadPart, First
  <1>15. ASSUME NEW u \in User, End(u) PROVE FailsOnlyAcrossSwap'
    BY <1>15 DEF End
  <1>16. CASE ScanGoesOn
    <2>1. ASSUME NEW n \in {"worker", "cache"}, LoadPart("scan", n), ScanGoesOn
          PROVE  FailsOnlyAcrossSwap'
      BY <2>1 DEF ScanGoesOn, LoadPart
    <2> QED
      BY <1>16, <2>1 DEF ScanGoesOn
  <1>17. ASSUME NEW c \in SavedConfig, PutConfig(c) PROVE FailsOnlyAcrossSwap'
    BY <1>17 DEF PutConfig
  <1>18. CASE Shutdown
    BY <1>18 DEF Shutdown
  <1>19. CASE Crash
    BY <1>19 DEF Crash
  <1>20. CASE UNCHANGED vars
    BY <1>20
  <1> QED
    BY NextCases, <1>1, <1>2, <1>3, <1>4, <1>5, <1>6, <1>7, <1>8, <1>9, <1>10, <1>11, <1>12, <1>13, <1>14, <1>15, <1>16, <1>17, <1>18, <1>19, <1>20

(* The standalone handler follows the configuration loaded last.             *)
LEMMA SecretStep ==
    ASSUME TypeOK, TypeOK', Ordered, SecretSoFar, [Next]_vars
    PROVE  SecretSoFar'
  <1> USE ConfigAssumption, ValueAssumption, Bounds, UserAssumption
  <1> USE DEF TypeOK, Call, Part, Before, Publishing, vars, dbVars, pubVars, callVars, userVars, Ordered, SecretSoFar, Wanted
  <1>1. ASSUME NEW c \in HostConfig, Configure(c) PROVE SecretSoFar'
    BY <1>1 DEF Configure
  <1>2. CASE Migrate
    BY <1>2 DEF Migrate
  <1>3. CASE Migrated
    BY <1>3 DEF Migrated
  <1>4. CASE ImportRead
    BY <1>4 DEF ImportRead
  <1>5. CASE ImportLegacyAppConfig
    BY <1>5 DEF ImportLegacyAppConfig, GiveUp
  <1>6. CASE GetAppConfig
    BY <1>6 DEF GetAppConfig
  <1>7. CASE Publish
    BY <1>7 DEF Publish, After
  <1>8. CASE NoStandalone
    BY <1>8 DEF NoStandalone
  <1>9. CASE StartStandalone
    BY <1>9 DEF StartStandalone
  <1>10. CASE BadSecret
    BY <1>10 DEF BadSecret
  <1>11. CASE PublishStore
    BY <1>11 DEF PublishStore
  <1>12. CASE SwapPool
    BY <1>12 DEF SwapPool
  <1>13. CASE ConfigureFails
    BY <1>13 DEF ConfigureFails, GiveUp
  <1>14. ASSUME NEW u \in User, Begin(u) PROVE SecretSoFar'
    BY <1>14 DEF Begin, LoadPart, First
  <1>15. ASSUME NEW u \in User, End(u) PROVE SecretSoFar'
    BY <1>15 DEF End
  <1>16. CASE ScanGoesOn
    BY <1>16 DEF ScanGoesOn, LoadPart
  <1>17. ASSUME NEW c \in SavedConfig, PutConfig(c) PROVE SecretSoFar'
    BY <1>17 DEF PutConfig
  <1>18. CASE Shutdown
    BY <1>18 DEF Shutdown
  <1>19. CASE Crash
    BY <1>19 DEF Crash
  <1>20. CASE UNCHANGED vars
    BY <1>20
  <1> QED
    BY NextCases, <1>1, <1>2, <1>3, <1>4, <1>5, <1>6, <1>7, <1>8, <1>9, <1>10, <1>11, <1>12, <1>13, <1>14, <1>15, <1>16, <1>17, <1>18, <1>19, <1>20

(* The invariant holds before the first Configure. *)
LEMMA InvInit == Init => Inv
  <1> SUFFICES ASSUME Init PROVE Inv
    OBVIOUS
  <1> USE ValueAssumption, Bounds, UserAssumption
  <1>1. TypeOK
    <2>1. DefaultAppConfig \in Config
      BY DEF DefaultAppConfig, Config
    <2>2. /\ pool \in [Call -> {"none", "open", "closed"}]
          /\ ptr \in [Part -> Call \cup {0}] /\ using \in [User -> Call \cup {0}]
          /\ stage \in [User -> Part \cup {"idle"}] /\ crossed \in [User -> BOOLEAN]
      BY DEF Init
    <2>3. \A u \in User : stage[u] = "idle" <=> using[u] = 0
      BY DEF Init
    <2>4. applied \in 0..Files /\ puts \in Nat /\ faults \in Nat
      BY DEF Init
    <2> QED
      BY <2>1, <2>2, <2>3, <2>4 DEF Init, TypeOK, Before
  <1>2. Ordered /\ PublishedIsOpen /\ FailsOnlyAcrossSwap
    BY DEF Init, Ordered, PublishedIsOpen, FailsOnlyAcrossSwap, Before
  <1>3. OpenPools
    BY DEF Init, OpenPools, Call
  <1>4. Progress /\ SecretSoFar
    BY DEF Init, Progress, PublishedBy, SecretSoFar, Wanted
  <1> QED
    BY <1>1, <1>2, <1>3, <1>4 DEF Inv

(* And every step keeps it. *)
LEMMA InvStep == Inv /\ [Next]_vars => Inv'
  <1> SUFFICES ASSUME Inv, [Next]_vars PROVE Inv'
    OBVIOUS
  <1>1. TypeOK'
    BY TypeStep DEF Inv
  <1>2. Ordered' /\ OpenPools' /\ Progress'
    BY <1>1, OrderedStep, OpenPoolsStep, ProgressStep DEF Inv
  <1>3. PublishedIsOpen' /\ FailsOnlyAcrossSwap' /\ SecretSoFar'
    BY <1>1, PublishedStep, CrossedStep, SecretStep DEF Inv
  <1> QED
    BY <1>1, <1>2, <1>3 DEF Inv

(* The inductive invariant of configuration (main.go: onConfigure).          *)
THEOREM LifecycleInvariant == Spec => []Inv
  BY InvInit, InvStep, PTL DEF Spec

(* Every reachable state is type-correct; a Configure under way has its pool *)
(* open, and has loaded a configuration once it publishes.                   *)
THEOREM LifecycleTypeCorrect == Spec => []TypeOK
  <1>1. Inv => TypeOK
    BY DEF Inv
  <1> QED
    BY <1>1, LifecycleInvariant, PTL

(* No pointer the scan, the drain, a request or a search loads ever leads to *)
(* a closed pool (main.go: publication before old.Close()).                  *)
THEOREM PublishedStaysOpen == Spec => []PublishedIsOpen
  <1>1. Inv => PublishedIsOpen
    BY DEF Inv
  <1> QED
    BY <1>1, LifecycleInvariant, PTL

(* Only work that was under way at a swap meets a closed pool.               *)
THEOREM OnlySwapsFail == Spec => []FailsOnlyAcrossSwap
  <1>1. Inv => FailsOnlyAcrossSwap
    BY DEF Inv
  <1> QED
    BY <1>1, LifecycleInvariant, PTL

(* Every pool is closed again, but for the error return on a bad secret.     *)
THEOREM PoolsAreAccounted == Spec => []PoolsAccounted
  <1>1. Inv => PoolsAccounted
    <2> SUFFICES ASSUME Inv, pc = "rest"
                 PROVE  {g \in Call : pool[g] = "open"} = leaked \cup ({poolPtr} \ {0})
      BY DEF PoolsAccounted
    <2>1. leaked \subseteq Call /\ poolPtr \in Call \cup {0} /\ 0 \notin Call
      BY DEF Inv, TypeOK, Call
    <2>2. \A g \in Call : pool[g] = "open" <=> g \in leaked \/ g = poolPtr
      BY DEF Inv, OpenPools
    <2> QED
      BY <2>1, <2>2
  <1> QED
    BY <1>1, LifecycleInvariant, PTL

(* The standalone handler checks tokens with the secret loaded last.         *)
THEOREM SecretStaysInForce == Spec => []SecretInForce
  <1>1. Inv => SecretInForce
    BY DEF Inv, TypeOK, OpenPools, SecretSoFar, SecretInForce, Wanted
  <1> QED
    BY <1>1, LifecycleInvariant, PTL

(* The row import decides on is the row it overwrites, unless raced.         *)
LEMMA ImportFreshStep == TypeOK /\ ImportFresh /\ [Next]_vars => ImportFresh'
  <1> SUFFICES ASSUME TypeOK, ImportFresh, [Next]_vars PROVE ImportFresh'
    OBVIOUS
  <1> USE DEF TypeOK, ImportFresh, Before, Publishing, vars, dbVars, pubVars, callVars, userVars
  <1>1. ASSUME NEW c \in HostConfig, Configure(c) PROVE ImportFresh'
    BY <1>1 DEF Configure
  <1>2. CASE Migrate
    BY <1>2 DEF Migrate
  <1>3. CASE Migrated
    BY <1>3 DEF Migrated
  <1>4. CASE ImportRead
    BY <1>4 DEF ImportRead
  <1>5. CASE ImportLegacyAppConfig
    BY <1>5 DEF ImportLegacyAppConfig, GiveUp
  <1>6. CASE GetAppConfig
    BY <1>6 DEF GetAppConfig
  <1>7. CASE Publish
    BY <1>7, AfterType DEF Publish
  <1>8. CASE NoStandalone
    BY <1>8 DEF NoStandalone
  <1>9. CASE StartStandalone
    BY <1>9 DEF StartStandalone
  <1>10. CASE BadSecret
    BY <1>10 DEF BadSecret
  <1>11. CASE PublishStore
    BY <1>11 DEF PublishStore
  <1>12. CASE SwapPool
    BY <1>12 DEF SwapPool
  <1>13. CASE ConfigureFails
    BY <1>13 DEF ConfigureFails, GiveUp
  <1>14. ASSUME NEW u \in User, Begin(u) PROVE ImportFresh'
    BY <1>14 DEF Begin
  <1>15. ASSUME NEW u \in User, End(u) PROVE ImportFresh'
    BY <1>15 DEF End
  <1>16. CASE ScanGoesOn
    BY <1>16 DEF ScanGoesOn
  <1>17. ASSUME NEW c \in SavedConfig, PutConfig(c) PROVE ImportFresh'
    BY <1>17 DEF PutConfig
  <1>18. CASE Shutdown
    BY <1>18 DEF Shutdown
  <1>19. CASE Crash
    BY <1>19 DEF Crash
  <1>20. CASE UNCHANGED vars
    BY <1>20
  <1> QED
    BY NextCases, <1>1, <1>2, <1>3, <1>4, <1>5, <1>6, <1>7, <1>8, <1>9, <1>10, <1>11, <1>12, <1>13, <1>14, <1>15, <1>16, <1>17, <1>18, <1>19, <1>20

(* A saved configuration is overwritten only by an import that read the      *)
(* defaults before it was saved (app_config.go: ImportLegacyAppConfig).      *)
THEOREM OperatorConfigKept == Spec => OperatorKept
  <1>1. Init => ImportFresh
    BY DEF Init, ImportFresh
  <1>2. TypeOK /\ ImportFresh /\ [Next]_vars =>
          [pc = "import" /\ pc' # pc /\ row' # row => row = DefaultAppConfig \/ raced]_vars
    <2> SUFFICES ASSUME TypeOK, ImportFresh, [Next]_vars, pc = "import", pc' # pc,
                        row' # row, ~raced
                 PROVE  row = DefaultAppConfig
      OBVIOUS
    <2>1. got = row
      BY DEF ImportFresh
    <2>2. ImportLegacyAppConfig \/ ~ImportLegacyAppConfig
      OBVIOUS
    <2>3. CASE ImportLegacyAppConfig
      BY <2>1, <2>3 DEF ImportLegacyAppConfig
    <2>4. CASE ~ImportLegacyAppConfig
      BY <2>4, NextCases DEF Configure, Migrate, Migrated, ImportRead, GetAppConfig,
         Publish, Publishing, NoStandalone, StartStandalone, BadSecret, PublishStore,
         SwapPool, ConfigureFails, GiveUp, Begin, End, ScanGoesOn, PutConfig, Shutdown,
         Crash, vars, dbVars, pubVars, callVars
    <2> QED
      BY <2>2, <2>3, <2>4
  <1> QED
    BY <1>1, <1>2, ImportFreshStep, LifecycleTypeCorrect, PTL DEF Spec, OperatorKept
=============================================================================
