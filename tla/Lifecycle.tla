------------------------------ MODULE Lifecycle ------------------------------
(***************************************************************************)
(* Configuration of the running plugin.  Every Configure of the host opens *)
(* a new connection pool, builds store, cache, queue, worker and handlers  *)
(* on it, publishes them one by one through atomic pointers, and finally   *)
(* closes the pool it replaces, while scans, drains, requests and searches *)
(* go on with whatever they loaded before.                                 *)
(*                                                                         *)
(* Pools and all that is built on one are named by the number of the       *)
(* Configure call that made them; 0 is a nil pointer.  A user of a pool    *)
(* that is closed gets errors.  Statements that succeed change nothing     *)
(* here, except for the admin's PUT of the configuration.                  *)
(*                                                                         *)
(* The host sends one Configure at a time: the code has no lock of its own *)
(* for them.  The library paths a call carries are upserted as in          *)
(* LibraryScan.  cfgPtr and the runtime server's own copy of the           *)
(* configuration are written and never read.  A walk also loads the queue, *)
(* which is at least as new as its store: that is not told apart here.     *)
(***************************************************************************)
EXTENDS Naturals

CONSTANTS
    Addr,         \* listen addresses
    Good,         \* secrets that decode to 32 bytes
    Off,          \* standalone_http_listen is empty
    Empty,        \* stream_signing_secret is empty
    Malformed,    \* a secret that does not decode to 32 bytes
    NoConfig,     \* appCfgPtr is nil
    HostConfig,   \* configurations the host sends
    User,         \* who uses the parts
    SavedConfig,  \* configurations the operator saves
    Files,        \* number of migration files
    MaxCalls,     \* bound: Configure calls
    MaxPuts,      \* bound: saved configurations
    MaxFaults     \* bound: failed calls and crashes

(* What of an AppConfig is told apart; "inline" has scan_inline_enrich on,   *)
(* "unknown" names a metadata source that does not exist.                    *)
Config == [listen : Addr \cup {Off}, secret : Good \cup {Empty, Malformed},
           settings : {"default", "inline", "unknown"}]
DefaultAppConfig == [listen |-> Off, secret |-> Empty, settings |-> "default"]
Closed == "closed"

ASSUME ConfigAssumption == HostConfig \subseteq Config /\ SavedConfig \subseteq Config
ASSUME ValueAssumption ==
    /\ Off \notin Addr /\ Closed \notin Addr \cup {Off}
    /\ Empty \notin Good /\ Malformed \notin Good
    /\ NoConfig \notin Config
ASSUME NumberAssumption == {Files, MaxCalls, MaxPuts, MaxFaults} \subseteq Nat

(* What a call publishes on its pool, besides the pool itself. *)
Part == {"cache", "queue", "worker", "meta", "host", "standalone", "store"}
Call == 1..MaxCalls

(* The scan (one, under scanMu), the drain of the cron task, a request and   *)
(* a search by way of the host: where each of them starts.                   *)
First == [scan |-> "store", drain |-> "worker", request |-> "host",
          search |-> "meta"]
ASSUME UserAssumption == User \subseteq DOMAIN First

VARIABLES
    row,        \* app_config
    applied,    \* migration files that are applied
    pool,       \* pool[g]: not made yet, open or closed
    ptr,        \* ptr[n]: whose part is published
    poolPtr,    \* the current pool
    appCfg,     \* appCfgPtr
    secret,     \* the secret of the published standalone handler
    listener,   \* the address that is listened on
    pc,         \* where the Configure under way is
    gen,        \* its number
    req,        \* its configuration
    got,        \* what ImportLegacyAppConfig read
    stage,      \* stage[u]: the part user u is working with
    using,      \* using[u]: whose it is
    puts, faults,
    \* history, read by the properties only
    crossed,    \* crossed[u]: a pool was closed since u loaded its part
    raced,      \* a configuration was saved between import's read and write
    leaked      \* pools of calls that failed on the stored secret

dbVars == <<row, applied>>
pubVars == <<pool, ptr, poolPtr, appCfg, secret, listener>>
callVars == <<pc, gen, req, got>>
userVars == <<stage, using, crossed>>
vars == <<dbVars, pubVars, callVars, userVars, puts, faults, raced, leaked>>

Before == {"migrate", "read", "import", "load"}
Publishing == {"cache", "queue", "worker", "meta", "host"}

TypeOK ==
    /\ row \in Config /\ applied \in 0..Files
    /\ pool \in [Call -> {"none", "open", "closed"}]
    /\ ptr \in [Part -> Call \cup {0}] /\ poolPtr \in Call \cup {0}
    /\ appCfg \in Config \cup {NoConfig}
    /\ secret \in Good \cup {Empty}
    /\ listener \in Addr \cup {Off, Closed}
    /\ pc \in Before \cup Publishing \cup {"rest", "standalone", "store", "swap"}
    /\ gen \in Call \cup {0} /\ req \in Config /\ got \in Config
    /\ stage \in [User -> Part \cup {"idle"}] /\ using \in [User -> Call \cup {0}]
    /\ \A u \in User : stage[u] = "idle" <=> using[u] = 0
    /\ puts \in Nat /\ faults \in Nat
    /\ crossed \in [User -> BOOLEAN] /\ raced \in BOOLEAN /\ leaked \subseteq Call
    /\ pc # "rest" => gen \in Call /\ pool[gen] = "open"
    /\ pc \notin Before \cup {"rest"} => appCfg # NoConfig

Init ==
    /\ row = DefaultAppConfig /\ applied = 0
    /\ pool = [g \in Call |-> "none"]
    /\ ptr = [n \in Part |-> 0] /\ poolPtr = 0
    /\ appCfg = NoConfig /\ secret = Empty /\ listener = Off
    /\ pc = "rest" /\ gen = 0
    /\ req = DefaultAppConfig /\ got = DefaultAppConfig
    /\ stage = [u \in User |-> "idle"] /\ using = [u \in User |-> 0]
    /\ crossed = [u \in User |-> FALSE]
    /\ puts = 0 /\ faults = 0 /\ raced = FALSE /\ leaked = {}

-----------------------------------------------------------------------------
(* Configure *)

(* runtime.Configure's checks: it does not look at the list of sources. *)
Accepted(c) ==
    /\ c.listen # Off => c.secret # Empty
    /\ c.secret # Empty => c.secret \in Good

(* AppConfig.Validate: it does not look at the secret. *)
Validate(c) == c.settings # "unknown"

(* A request that is not accepted changes nothing. *)
Configure(c) ==
    /\ pc = "rest" /\ gen < MaxCalls /\ Accepted(c)
    /\ gen' = gen + 1
    /\ pool' = [pool EXCEPT ![gen + 1] = "open"]
    /\ req' = c /\ pc' = "migrate"
    /\ UNCHANGED <<dbVars, ptr, poolPtr, appCfg, secret, listener, got,
                   userVars, puts, faults, raced, leaked>>

(* One migration file with its bookkeeping row, in a transaction. *)
Migrate ==
    /\ pc = "migrate" /\ applied < Files
    /\ applied' = applied + 1
    /\ UNCHANGED <<row, pubVars, callVars, userVars, puts, faults, raced, leaked>>

Migrated ==
    /\ pc = "migrate" /\ applied = Files
    /\ pc' = "read"
    /\ UNCHANGED <<dbVars, pubVars, gen, req, got, userVars, puts, faults, raced,
                   leaked>>

(* ImportLegacyAppConfig reads the stored configuration ... *)
ImportRead ==
    /\ pc = "read"
    /\ got' = row /\ pc' = "import" /\ raced' = FALSE
    /\ UNCHANGED <<dbVars, pubVars, gen, req, userVars, puts, faults, leaked>>

(* p.Close() and an error return. *)
GiveUp ==
    /\ pool' = [pool EXCEPT ![gen] = "closed"]
    /\ pc' = "rest"
    /\ UNCHANGED <<ptr, poolPtr, appCfg, secret, listener, gen, req, got>>

(* Mutant: the host's configuration wins over a stored one. *)
ImportLegacyAppConfig_Always ==
    /\ pc = "import"
    /\ IF req = got
       THEN pc' = "load" /\ UNCHANGED <<row, pubVars, gen, req, got>>
       ELSE IF Validate(req)
       THEN row' = req /\ pc' = "load" /\ UNCHANGED <<pubVars, gen, req, got>>
       ELSE GiveUp /\ UNCHANGED row
    /\ UNCHANGED <<applied, userVars, puts, faults, raced, leaked>>

(* ... and writes the host's if it found the defaults.  Validate refuses     *)
(* what PutAppConfig would not store, which fails the whole call.            *)
ImportLegacyAppConfig ==
    /\ pc = "import"
    /\ \/ /\ got # DefaultAppConfig \/ req = got
          /\ pc' = "load"
          /\ UNCHANGED <<row, pubVars, gen, req, got>>
       \/ /\ got = DefaultAppConfig /\ req # got /\ Validate(req)
          /\ row' = req /\ pc' = "load"
          /\ UNCHANGED <<pubVars, gen, req, got>>
       \/ /\ got = DefaultAppConfig /\ req # got /\ ~Validate(req)
          /\ GiveUp
          /\ UNCHANGED row
    /\ UNCHANGED <<applied, userVars, puts, faults, raced, leaked>>

(* Mutant: the old pool is closed before the new parts are published. *)
GetAppConfig_CloseOld ==
    /\ pc = "load"
    /\ appCfg' = row /\ pc' = "cache"
    /\ pool' = [g \in Call |-> IF g = poolPtr THEN "closed" ELSE pool[g]]
    /\ UNCHANGED <<dbVars, ptr, poolPtr, secret, listener, gen, req, got,
                   userVars, puts, faults, raced, leaked>>

(* Read a second time, and stored in appCfgPtr. *)
GetAppConfig ==
    /\ pc = "load"
    /\ appCfg' = row /\ pc' = "cache"
    /\ UNCHANGED <<dbVars, pool, ptr, poolPtr, secret, listener, gen, req, got,
                   userVars, puts, faults, raced, leaked>>

(* Mutant: the error return forgets the pool. *)
ConfigureFails_Leak ==
    /\ pc \in Before /\ faults < MaxFaults
    /\ faults' = faults + 1
    /\ pc' = "rest"
    /\ UNCHANGED <<dbVars, pubVars, gen, req, got, userVars, puts, raced, leaked>>

(* Mutant: the pool is closed and the call goes on. *)
ConfigureFails_NoReturn ==
    /\ pc \in Before /\ faults < MaxFaults
    /\ faults' = faults + 1
    /\ pool' = [pool EXCEPT ![gen] = "closed"]
    /\ UNCHANGED <<dbVars, ptr, poolPtr, appCfg, secret, listener, callVars,
                   userVars, puts, raced, leaked>>

(* A migration or a statement fails before anything is published. *)
ConfigureFails ==
    /\ pc \in Before /\ faults < MaxFaults
    /\ faults' = faults + 1
    /\ GiveUp
    /\ UNCHANGED <<dbVars, userVars, puts, raced, leaked>>

(* configureMetadata's Store calls and httpSrv.SetHandler, in this order. *)
After == [cache |-> "queue", queue |-> "worker", worker |-> "meta",
          meta |-> "host", host |-> "standalone"]
Publish ==
    /\ pc \in Publishing
    /\ ptr' = [ptr EXCEPT ![pc] = gen]
    /\ pc' = After[pc]
    /\ UNCHANGED <<dbVars, pool, poolPtr, appCfg, secret, listener, gen, req, got,
                   userVars, puts, faults, raced, leaked>>

(* Mutant: a new handler is installed only when the listener starts. *)
StartStandalone_Once ==
    /\ pc = "standalone" /\ appCfg.listen # Off /\ appCfg.secret \in Good
    /\ pc' = "store"
    /\ ptr' = [ptr EXCEPT !["standalone"] = IF listener = Off THEN gen ELSE @]
    /\ secret' = IF listener = Off THEN appCfg.secret ELSE secret
    /\ listener' \in IF listener = Off THEN {appCfg.listen, Closed} ELSE {listener}
    /\ UNCHANGED <<dbVars, pool, poolPtr, appCfg, gen, req, got, userVars, puts,
                   faults, raced, leaked>>

NoStandalone ==
    /\ pc = "standalone" /\ appCfg.listen = Off
    /\ pc' = "store"
    /\ UNCHANGED <<dbVars, pubVars, gen, req, got, userVars, puts, faults, raced,
                   leaked>>

(* The handler is replaced every time, the listener started once: it keeps   *)
(* its first address, and is not started again if it could not be bound.     *)
StartStandalone ==
    /\ pc = "standalone" /\ appCfg.listen # Off /\ appCfg.secret \in Good
    /\ pc' = "store"
    /\ ptr' = [ptr EXCEPT !["standalone"] = gen]
    /\ secret' = appCfg.secret
    /\ listener' \in IF listener = Off THEN {appCfg.listen, Closed} ELSE {listener}
    /\ UNCHANGED <<dbVars, pool, poolPtr, appCfg, gen, req, got, userVars, puts,
                   faults, raced, leaked>>

(* Mutant: the error return closes the pool, as the earlier ones do. *)
BadSecret_Close ==
    /\ pc = "standalone" /\ appCfg.listen # Off /\ appCfg.secret \notin Good
    /\ GiveUp
    /\ UNCHANGED <<dbVars, userVars, puts, faults, raced, leaked>>

(* The stored secret does not decode: an error return, with the pool left    *)
(* open under the parts that are published already.                          *)
BadSecret ==
    /\ pc = "standalone" /\ appCfg.listen # Off /\ appCfg.secret \notin Good
    /\ pc' = "rest"
    /\ leaked' = leaked \cup {gen}
    /\ UNCHANGED <<dbVars, pubVars, gen, req, got, userVars, puts, faults, raced>>

PublishStore ==
    /\ pc = "store"
    /\ ptr' = [ptr EXCEPT !["store"] = gen]
    /\ pc' = "swap"
    /\ UNCHANGED <<dbVars, pool, poolPtr, appCfg, secret, listener, gen, req, got,
                   userVars, puts, faults, raced, leaked>>

(* poolPtr.Swap and old.Close(), which waits for statements that are running.*)
SwapPool ==
    /\ pc = "swap"
    /\ poolPtr' = gen
    /\ pool' = [g \in Call |-> IF g = poolPtr THEN "closed" ELSE pool[g]]
    /\ crossed' = [u \in User |-> stage[u] # "idle"]
    /\ pc' = "rest"
    /\ UNCHANGED <<dbVars, ptr, appCfg, secret, listener, gen, req, got, stage,
                   using, puts, faults, raced, leaked>>

-----------------------------------------------------------------------------
(* Users *)

(* u loads the pointer to part n; a nil one ends its work. *)
LoadPart(u, n) ==
    /\ stage' = [stage EXCEPT ![u] = IF ptr[n] = 0 THEN "idle" ELSE n]
    /\ using' = [using EXCEPT ![u] = ptr[n]]
    /\ crossed' = [crossed EXCEPT ![u] = FALSE]

(* Nothing is started on a nil pointer. *)
Begin(u) ==
    /\ stage[u] = "idle" /\ ptr[First[u]] # 0
    /\ LoadPart(u, First[u])
    /\ UNCHANGED <<dbVars, pubVars, callVars, puts, faults, raced, leaked>>

(* After its walks a scan drains inline if the configuration says so, and    *)
(* then evicts; an error of the drain does not keep it from that.            *)
ScanGoesOn ==
    /\ "scan" \in User
    /\ \/ /\ stage["scan"] = "store" /\ pool[using["scan"]] = "open"
          /\ LoadPart("scan", IF appCfg.settings = "inline" THEN "worker" ELSE "cache")
       \/ stage["scan"] = "worker" /\ LoadPart("scan", "cache")
    /\ UNCHANGED <<dbVars, pubVars, callVars, puts, faults, raced, leaked>>

(* The work is done, or a statement failed, as all do on a closed pool.  An  *)
(* inline drain that ends is not the end of its scan.                        *)
End(u) ==
    /\ stage[u] # "idle" /\ <<u, stage[u]>> # <<"scan", "worker">>
    /\ stage' = [stage EXCEPT ![u] = "idle"] /\ using' = [using EXCEPT ![u] = 0]
    /\ crossed' = [crossed EXCEPT ![u] = FALSE]
    /\ UNCHANGED <<dbVars, pubVars, callVars, puts, faults, raced, leaked>>

(* handleAdminPutConfig: the whole configuration is replaced, the secret by  *)
(* an empty one if the form left it out; nothing published changes.          *)
PutConfig(c) ==
    /\ "request" \in User /\ stage["request"] = "host" /\ pool[using["request"]] = "open"
    /\ puts < MaxPuts
    /\ c.listen # Off => c.secret # Empty
    /\ Validate(c)
    /\ row' = c /\ puts' = puts + 1
    /\ raced' = (raced \/ pc = "import")
    /\ stage' = [stage EXCEPT !["request"] = "idle"]
    /\ using' = [using EXCEPT !["request"] = 0]
    /\ crossed' = [crossed EXCEPT !["request"] = FALSE]
    /\ UNCHANGED <<applied, pubVars, callVars, faults, leaked>>

-----------------------------------------------------------------------------

(* SIGTERM: the standalone listener is shut down. *)
Shutdown ==
    /\ listener \in Addr
    /\ listener' = Closed
    /\ UNCHANGED <<dbVars, pool, ptr, poolPtr, appCfg, secret, callVars, userVars,
                   puts, faults, raced, leaked>>

(* The plugin process dies and is started again, with nil pointers. *)
Crash ==
    /\ faults < MaxFaults /\ gen # 0
    /\ faults' = faults + 1
    /\ pool' = [g \in Call |-> IF g <= gen THEN "closed" ELSE "none"]
    /\ ptr' = [n \in Part |-> 0] /\ poolPtr' = 0
    /\ appCfg' = NoConfig /\ secret' = Empty /\ listener' = Off
    /\ pc' = "rest"
    /\ stage' = [u \in User |-> "idle"] /\ using' = [u \in User |-> 0]
    /\ crossed' = [u \in User |-> FALSE] /\ leaked' = {}
    /\ UNCHANGED <<dbVars, gen, req, got, puts, raced>>

ConfigureStep ==
    \/ Migrate \/ Migrated \/ ImportRead \/ ImportLegacyAppConfig \/ GetAppConfig
    \/ Publish \/ NoStandalone \/ StartStandalone \/ BadSecret
    \/ PublishStore \/ SwapPool

Next ==
    \/ \E c \in HostConfig : Configure(c)
    \/ ConfigureStep
    \/ ConfigureFails
    \/ \E u \in User : Begin(u) \/ End(u)
    \/ ScanGoesOn
    \/ \E c \in SavedConfig : PutConfig(c)
    \/ Shutdown
    \/ Crash

Spec == Init /\ [][Next]_vars

-----------------------------------------------------------------------------
(* Properties *)

(* Whoever loads a pointer gets a part whose pool is open, at any step of a  *)
(* Configure and after any failure of one.  (The standalone handler is apart:*)
(* turned off, it stays published on the pool that is closed under it.)      *)
PublishedIsOpen ==
    \A n \in Part \ {"standalone"} : ptr[n] # 0 => pool[ptr[n]] = "open"

(* A scan, drain, request or search meets a closed pool only if a Configure  *)
(* replaced the pool after it had loaded the part it works with.             *)
FailsOnlyAcrossSwap ==
    \A u \in User :
        stage[u] # "idle" /\ pool[using[u]] = "closed" => crossed[u]

(* No pool is forgotten: between two Configure calls the current one is the  *)
(* only one open, but for those of calls that failed on the stored secret.   *)
PoolsAccounted ==
    pc = "rest" => {g \in Call : pool[g] = "open"} = leaked \cup ({poolPtr} \ {0})

(* The secret last loaded is the one in force: between two Configure calls   *)
(* the standalone handler checks tokens with it, on an open pool, however    *)
(* often the secret was rotated and the listener switched off and on.        *)
SecretInForce ==
    pc = "rest" /\ appCfg # NoConfig =>
        (appCfg.listen # Off /\ appCfg.secret \in Good =>
            /\ ptr["standalone"] # 0 /\ pool[ptr["standalone"]] = "open"
            /\ secret = appCfg.secret)

(* A Configure never overwrites a configuration other than the defaults,     *)
(* unless that was saved between the import's read and its write.            *)
OperatorKept ==
    [][pc = "import" /\ pc' # pc /\ row' # row =>
          row = DefaultAppConfig \/ raced]_vars

-----------------------------------------------------------------------------
(* Inductive strengthenings of the invariants above.                         *)

(* Numbers are given in order, and a call is new to everybody until it       *)
(* publishes its first part.                                                 *)
Ordered ==
    /\ \A n \in Part : ptr[n] <= gen
    /\ \A u \in User : using[u] <= gen
    /\ pc \in Before => /\ \A n \in Part : ptr[n] # gen
                        /\ \A u \in User : using[u] # gen
    /\ poolPtr <= gen /\ \A g \in leaked : g <= gen
    /\ pc # "rest" => poolPtr # gen /\ gen \notin leaked
    /\ poolPtr \notin leaked

(* The open pools are the current one, the leaked ones and that of a call.   *)
OpenPools ==
    \A g \in Call : pool[g] = "open" <=>
        g \in leaked \/ g = poolPtr \/ (pc # "rest" /\ g = gen)

(* What the call under way has published by now. *)
PublishedBy ==
    [cache |-> {}, queue |-> {"cache"}, worker |-> {"cache", "queue"},
     meta |-> {"cache", "queue", "worker"},
     host |-> {"cache", "queue", "worker", "meta"},
     standalone |-> Publishing, store |-> Publishing,
     swap |-> Publishing \cup {"store"}]
Progress ==
    pc \in DOMAIN PublishedBy => \A n \in PublishedBy[pc] : ptr[n] = gen

(* The configuration loaded last asks for the standalone listener. *)
Wanted == appCfg # NoConfig /\ appCfg.listen # Off /\ appCfg.secret \in Good
SecretSoFar ==
    Wanted =>
        /\ pc \in Before \cup {"rest"} => ptr["standalone"] = poolPtr /\ poolPtr # 0
        /\ pc \in {"store", "swap"} => ptr["standalone"] = gen
        /\ pc \in Before \cup {"rest", "store", "swap"} => secret = appCfg.secret

Inv ==
    /\ TypeOK
    /\ Ordered
    /\ OpenPools
    /\ Progress
    /\ PublishedIsOpen
    /\ FailsOnlyAcrossSwap
    /\ SecretSoFar

(* The import writes what it found to be the defaults. *)
ImportFresh == pc = "import" /\ ~raced => row = got
=============================================================================
