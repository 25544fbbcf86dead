-------------------------- MODULE PausingManager --------------------------
(***************************************************************************)
(* contracts/core/PendlePausingManager.sol.  Forges, markets and liquidity *)
(* mining contracts ask it before every write whether they are paused or   *)
(* locked (in emergency mode).  The answer is cached per target, and the   *)
(* cache is trusted as long as it is younger than the last write to any    *)
(* flag.  The contract also names the three emergency handlers, which are  *)
(* replaced through a timelock.  A definition marked "Mistake" is a wrong  *)
(* variant of the one after it, and not part of the specification.         *)
(*                                                                         *)
(* A transaction is one step; several may share a block timestamp.  A call *)
(* that reverts leaves no trace, so a require is a guard of its action.    *)
(***************************************************************************)
EXTENDS Integers

CONSTANTS
    Address,        \* externally owned accounts
    Governance,     \* the account the governance manager names
    ForgeId, Asset, Expiry,
    FactoryId, Market,
    LiqMining,      \* liquidity mining contracts
    Handler,        \* candidates for emergency handler
    InitialHandler, \* the handlers named by the constructor
    NoHandler,      \* address(0)
    TIMELOCK,       \* EMERGENCY_HANDLER_CHANGE_TIMELOCK
    MaxTime         \* bound on block.timestamp

ASSUME GovernanceAssumption == Governance \in Address
ASSUME HandlerAssumption == InitialHandler \in Handler /\ NoHandler \notin Handler
ASSUME TimeAssumption == TIMELOCK \in Nat /\ MaxTime \in Nat

VARIABLES
    now,             \* block.timestamp
    pausedAt,        \* forgePaused, forgeAssetPaused, ..., by scope
    lockedAt,        \* forgeLocked, forgeAssetLocked, ..., by scope
    lastUpdated,     \* timestamp of the last write to a flag
    cachedStatus,    \* forgeAssetExpiryCachedStatus, marketCachedStatus, ...
    answers,         \* what the last check of each target returned
    isPausingAdmin,
    handlers,        \* forgeEmergencyHandler, marketEmergencyHandler, ...
    handlerLocked,   \* permForgeHandlerLocked, permMarketHandlerLocked, ...
    permLocked,
    requestedAt,     \* history: when the pending handler was last requested
    asked            \* history: the targets checked since the last write to a flag

flagVars == <<pausedAt, lockedAt, lastUpdated, asked>>
statusVars == <<cachedStatus, answers>>
handlerVars == <<handlers, handlerLocked, requestedAt>>
vars == <<now, flagVars, statusVars, isPausingAdmin, handlerVars, permLocked>>

(* Never stands for uint256(-1): a timestamp that no run reaches. *)
Never == MaxTime + TIMELOCK + 1

(***************************************************************************)
(* Scopes carry flags, targets are asked about.                            *)
(***************************************************************************)
Scope == ({"forge"} \X ForgeId)
    \cup ({"forgeAsset"} \X ForgeId \X Asset)
    \cup ({"forgeAssetExpiry"} \X ForgeId \X Asset \X Expiry)
    \cup ({"marketFactory"} \X FactoryId)
    \cup ({"market"} \X FactoryId \X Market)
    \cup ({"liqMining"} \X LiqMining)

YieldContract == {"yieldContract"} \X ForgeId \X Asset \X Expiry
MarketOfFactory == {"ofFactory"} \X FactoryId \X Market
Target == YieldContract \cup MarketOfFactory \cup ({"mining"} \X LiqMining)

YieldContractScopes(f, a, e) ==
    {<<"forge", f>>, <<"forgeAsset", f, a>>, <<"forgeAssetExpiry", f, a, e>>}

MarketScopes(id, m) == {<<"marketFactory", id>>, <<"market", id, m>>}

ScopesOf(t) ==
    CASE t[1] = "yieldContract" -> YieldContractScopes(t[2], t[3], t[4])
      [] t[1] = "ofFactory" -> MarketScopes(t[2], t[3])
      [] OTHER -> {<<"liqMining", t[2]>>}

Kind == {"forge", "market", "liqMining"}

Status == [locked : BOOLEAN, paused : BOOLEAN]

(* _isYieldContractPaused, _isMarketPaused and the liqMiningPaused lookup. *)
IsPaused(t) == \E s \in ScopesOf(t) : pausedAt[s]

(* _isYieldContractLocked, _isMarketLocked and the liqMiningLocked lookup. *)
IsLocked(t) == \E s \in ScopesOf(t) : lockedAt[s]

(* What a check computes when it does not trust the cache. *)
FreshStatus(t) == [locked |-> IsLocked(t), paused |-> IsLocked(t) \/ IsPaused(t)]

(* Mistake: trusts an entry written in the block of the last write. *)
CacheUsableAtLeast(t) == cachedStatus[t].timestamp >= lastUpdated

CacheUsable(t) == cachedStatus[t].timestamp > lastUpdated

(* What a check returns to the forge, market or mining contract. *)
ReportedStatus(t) ==
    IF CacheUsable(t) THEN cachedStatus[t].status ELSE FreshStatus(t)

(***************************************************************************)
(* The constructor.  A mapping entry that was never written is zero.       *)
(***************************************************************************)
Init ==
    /\ now \in 1..MaxTime
    /\ lastUpdated = now
    /\ pausedAt = [s \in Scope |-> FALSE]
    /\ lockedAt = [s \in Scope |-> FALSE]
    /\ cachedStatus = [t \in Target |->
          [timestamp |-> 0, status |-> [locked |-> FALSE, paused |-> FALSE]]]
    /\ answers = [t \in Target |-> [locked |-> FALSE, paused |-> FALSE]]
    /\ isPausingAdmin = [u \in Address |-> FALSE]
    /\ handlers = [k \in Kind |-> [handler |-> InitialHandler,
                                   pendingHandler |-> NoHandler,
                                   timelockDeadline |-> 0]]
    /\ handlerLocked = [k \in Kind |-> FALSE]
    /\ permLocked = FALSE
    /\ requestedAt = [k \in Kind |-> 0]
    /\ asked = {}

(***************************************************************************)
(* Modifiers.                                                              *)
(***************************************************************************)
OnlyGovernance(caller) == caller = Governance

NotPermLocked == ~permLocked

IsAllowedToSetPaused(caller, b) ==
    IF b THEN isPausingAdmin[caller] ELSE OnlyGovernance(caller)

UpdateSomeStatus == lastUpdated' = now /\ asked' = {}

(***************************************************************************)
(* Administration.                                                         *)
(***************************************************************************)
SetPausingAdmin(caller, admin, b) ==
    /\ OnlyGovernance(caller)
    /\ NotPermLocked
    /\ isPausingAdmin[admin] # b
    /\ isPausingAdmin' = [isPausingAdmin EXCEPT ![admin] = b]
    /\ UNCHANGED <<now, flagVars, statusVars, handlerVars, permLocked>>

(* Mistake: a second request keeps the deadline of the first. *)
RequestHandlerChangeKeepsDeadline(caller, k, h) ==
    /\ OnlyGovernance(caller)
    /\ NotPermLocked
    /\ ~handlerLocked[k]
    /\ handlers' = [handlers EXCEPT ![k].pendingHandler = h,
          ![k].timelockDeadline = IF handlers[k].pendingHandler = NoHandler
                                  THEN now + TIMELOCK ELSE @]
    /\ requestedAt' = [requestedAt EXCEPT ![k] = now]
    /\ UNCHANGED <<now, flagVars, statusVars, isPausingAdmin, handlerLocked, permLocked>>

RequestHandlerChange(caller, k, h) ==
    /\ OnlyGovernance(caller)
    /\ NotPermLocked
    /\ ~handlerLocked[k]
    /\ h # NoHandler
    /\ handlers' = [handlers EXCEPT ![k].pendingHandler = h,
                                    ![k].timelockDeadline = now + TIMELOCK]
    /\ requestedAt' = [requestedAt EXCEPT ![k] = now]
    /\ UNCHANGED <<now, flagVars, statusVars, isPausingAdmin, handlerLocked, permLocked>>

RequestForgeHandlerChange(caller, h) == RequestHandlerChange(caller, "forge", h)
RequestMarketHandlerChange(caller, h) == RequestHandlerChange(caller, "market", h)
RequestLiqMiningHandlerChange(caller, h) == RequestHandlerChange(caller, "liqMining", h)

(* Mistake: applies a change nobody requested. *)
ApplyHandlerChangeUnrequested(k) ==
    /\ NotPermLocked
    /\ now > handlers[k].timelockDeadline
    /\ handlers' = [handlers EXCEPT ![k] = [handler |-> handlers[k].pendingHandler,
                                            pendingHandler |-> NoHandler,
                                            timelockDeadline |-> Never]]
    /\ UNCHANGED <<now, flagVars, statusVars, isPausingAdmin, handlerLocked,
                   requestedAt, permLocked>>

(* Open to everybody. *)
ApplyHandlerChange(k) ==
    /\ NotPermLocked
    /\ handlers[k].pendingHandler # NoHandler
    /\ now > handlers[k].timelockDeadline
    /\ handlers' = [handlers EXCEPT ![k] = [handler |-> handlers[k].pendingHandler,
                                            pendingHandler |-> NoHandler,
                                            timelockDeadline |-> Never]]
    /\ UNCHANGED <<now, flagVars, statusVars, isPausingAdmin, handlerLocked,
                   requestedAt, permLocked>>

ApplyForgeHandlerChange == ApplyHandlerChange("forge")
ApplyMarketHandlerChange == ApplyHandlerChange("market")
ApplyLiqMiningHandlerChange == ApplyHandlerChange("liqMining")

LockPausingManagerPermanently(caller) ==
    /\ OnlyGovernance(caller)
    /\ NotPermLocked
    /\ permLocked' = TRUE
    /\ UNCHANGED <<now, flagVars, statusVars, isPausingAdmin, handlerVars>>

LockHandlerPermanently(caller, k) ==
    /\ OnlyGovernance(caller)
    /\ NotPermLocked
    /\ handlerLocked' = [handlerLocked EXCEPT ![k] = TRUE]
    /\ UNCHANGED <<now, flagVars, statusVars, isPausingAdmin, handlers,
                   requestedAt, permLocked>>

LockForgeHandlerPermanently(caller) == LockHandlerPermanently(caller, "forge")
LockMarketHandlerPermanently(caller) == LockHandlerPermanently(caller, "market")
LockLiqMiningHandlerPermanently(caller) == LockHandlerPermanently(caller, "liqMining")

(***************************************************************************)
(* Writing a flag.  Every setter runs under the modifier updateSomeStatus. *)
(***************************************************************************)
SetPaused(caller, s, b) ==
    /\ IsAllowedToSetPaused(caller, b)
    /\ NotPermLocked
    /\ pausedAt' = [pausedAt EXCEPT ![s] = b]
    /\ UpdateSomeStatus
    /\ UNCHANGED <<now, lockedAt, statusVars, isPausingAdmin, handlerVars, permLocked>>

SetLocked(caller, s) ==
    /\ OnlyGovernance(caller)
    /\ NotPermLocked
    /\ lockedAt' = [lockedAt EXCEPT ![s] = TRUE]
    /\ UpdateSomeStatus
    /\ UNCHANGED <<now, pausedAt, statusVars, isPausingAdmin, handlerVars, permLocked>>

SetForgePaused(caller, f, b) == SetPaused(caller, <<"forge", f>>, b)
SetForgeAssetPaused(caller, f, a, b) == SetPaused(caller, <<"forgeAsset", f, a>>, b)
SetForgeAssetExpiryPaused(caller, f, a, e, b) ==
    SetPaused(caller, <<"forgeAssetExpiry", f, a, e>>, b)
SetForgeLocked(caller, f) == SetLocked(caller, <<"forge", f>>)
SetForgeAssetLocked(caller, f, a) == SetLocked(caller, <<"forgeAsset", f, a>>)
SetForgeAssetExpiryLocked(caller, f, a, e) ==
    SetLocked(caller, <<"forgeAssetExpiry", f, a, e>>)
SetMarketFactoryPaused(caller, id, b) == SetPaused(caller, <<"marketFactory", id>>, b)
SetMarketPaused(caller, id, m, b) == SetPaused(caller, <<"market", id, m>>, b)
SetMarketFactoryLocked(caller, id) == SetLocked(caller, <<"marketFactory", id>>)
SetMarketLocked(caller, id, m) == SetLocked(caller, <<"market", id, m>>)
SetLiqMiningPaused(caller, l, b) == SetPaused(caller, <<"liqMining", l>>, b)
SetLiqMiningLocked(caller, l) == SetLocked(caller, <<"liqMining", l>>)

(***************************************************************************)
(* Checking a status.  Open to everybody.  The cache is rewritten exactly  *)
(* when it was not used.                                                   *)
(***************************************************************************)
CheckStatus(t) ==
    /\ answers' = [answers EXCEPT ![t] = ReportedStatus(t)]
    /\ cachedStatus' =
          IF CacheUsable(t) THEN cachedStatus
          ELSE [cachedStatus EXCEPT ![t] = [timestamp |-> now, status |-> FreshStatus(t)]]
    /\ asked' = asked \cup {t}
    /\ UNCHANGED <<now, pausedAt, lockedAt, lastUpdated, isPausingAdmin, handlerVars, permLocked>>

CheckYieldContractStatus(f, a, e) == CheckStatus(<<"yieldContract", f, a, e>>)
CheckMarketStatus(id, m) == CheckStatus(<<"ofFactory", id, m>>)
CheckLiqMiningStatus(l) == CheckStatus(<<"mining", l>>)

(* A later block. *)
Tick ==
    /\ now < MaxTime
    /\ now' = now + 1
    /\ UNCHANGED <<flagVars, statusVars, isPausingAdmin, handlerVars, permLocked>>

ForgeFlag(caller) == \E f \in ForgeId, b \in BOOLEAN :
    \/ SetForgePaused(caller, f, b)
    \/ SetForgeLocked(caller, f)
    \/ \E a \in Asset : \/ SetForgeAssetPaused(caller, f, a, b)
                        \/ SetForgeAssetLocked(caller, f, a)
    \/ \E a \in Asset, e \in Expiry : \/ SetForgeAssetExpiryPaused(caller, f, a, e, b)
                                      \/ SetForgeAssetExpiryLocked(caller, f, a, e)

MarketFlag(caller) == \E id \in FactoryId, b \in BOOLEAN :
    \/ SetMarketFactoryPaused(caller, id, b)
    \/ SetMarketFactoryLocked(caller, id)
    \/ \E m \in Market : \/ SetMarketPaused(caller, id, m, b)
                         \/ SetMarketLocked(caller, id, m)

LiqMiningFlag(caller) == \E l \in LiqMining, b \in BOOLEAN :
    SetLiqMiningPaused(caller, l, b) \/ SetLiqMiningLocked(caller, l)

Admin(caller) ==
    \/ \E admin \in Address, b \in BOOLEAN : SetPausingAdmin(caller, admin, b)
    \/ \E h \in Handler : \/ RequestForgeHandlerChange(caller, h)
                          \/ RequestMarketHandlerChange(caller, h)
                          \/ RequestLiqMiningHandlerChange(caller, h)
    \/ LockPausingManagerPermanently(caller)
    \/ LockForgeHandlerPermanently(caller)
    \/ LockMarketHandlerPermanently(caller)
    \/ LockLiqMiningHandlerPermanently(caller)

Apply ==
    ApplyForgeHandlerChange \/ ApplyMarketHandlerChange \/ ApplyLiqMiningHandlerChange

Check ==
    \/ \E f \in ForgeId, a \in Asset, e \in Expiry : CheckYieldContractStatus(f, a, e)
    \/ \E id \in FactoryId, m \in Market : CheckMarketStatus(id, m)
    \/ \E l \in LiqMining : CheckLiqMiningStatus(l)

Next ==
    \/ Tick
    \/ \E caller \in Address : \/ Admin(caller)
                               \/ ForgeFlag(caller)
                               \/ MarketFlag(caller)
                               \/ LiqMiningFlag(caller)
    \/ Apply
    \/ Check

Spec == Init /\ [][Next]_vars

-----------------------------------------------------------------------------
(***************************************************************************)
(* Properties.                                                             *)
(***************************************************************************)
TypeOK ==
    /\ now \in 1..MaxTime
    /\ lastUpdated \in 1..MaxTime
    /\ pausedAt \in [Scope -> BOOLEAN]
    /\ lockedAt \in [Scope -> BOOLEAN]
    /\ cachedStatus \in [Target -> [timestamp : 0..MaxTime, status : Status]]
    /\ answers \in [Target -> Status]
    /\ isPausingAdmin \in [Address -> BOOLEAN]
    /\ handlers \in [Kind -> [handler : Handler,
                              pendingHandler : Handler \cup {NoHandler},
                              timelockDeadline : Nat]]
    /\ handlerLocked \in [Kind -> BOOLEAN]
    /\ permLocked \in BOOLEAN
    /\ requestedAt \in [Kind -> 0..MaxTime]
    /\ asked \subseteq Target

(* A cached status that a check would return is the status the flags give: *)
(* no sequence of pausing, locking and checking, also within one block,    *)
(* lets a forge go on with an outdated answer.                             *)
CacheIsCoherent == \A t \in Target : CacheUsable(t) => cachedStatus[t].status = FreshStatus(t)

(* Once a contract has been told that it is in emergency mode, every later *)
(* answer says that it is locked and paused, whoever asks and writes in    *)
(* between: the emergency withdrawal is never raced by a normal operation. *)
EmergencyIsForever ==
    \A t \in Target : answers[t].locked =>
        ReportedStatus(t).locked /\ ReportedStatus(t).paused

(* After lockPausingManagerPermanently no check of any target changes its  *)
(* answer any more: neither a flag nor an outdated cache can move it.      *)
PermLockFreezesStatus ==
    [][permLocked => \A t \in Target : ReportedStatus(t)' = ReportedStatus(t)]_vars

(* A new emergency handler takes over only when more than the timelock has *)
(* passed since governance last named a handler for that kind, and it is   *)
(* the one named then.                                                     *)
HandlerChangeIsTimelocked ==
    [][\A k \in Kind : handlers'[k].handler # handlers[k].handler =>
          /\ handlers'[k].handler = handlers[k].pendingHandler
          /\ now > requestedAt[k] + TIMELOCK]_vars

(* "Lock permanently parts of the features": once a handler is locked, it  *)
(* stays the handler.                                                      *)
LockedHandlerStays ==
    [][\A k \in Kind : handlerLocked[k] => handlers'[k].handler = handlers[k].handler]_vars

(* The caching contract keeps the promise of the register without a cache. *)
Register == INSTANCE PauseRegister

RegisterSpec == Register!RegisterSpec
=============================================================================
