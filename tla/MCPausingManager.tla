------------------------- MODULE MCPausingManager -------------------------
(***************************************************************************)
(* Instances of PausingManager for TLC.  The flags and the handlers share  *)
(* only permLocked, and two kinds of target only lastUpdated, which two    *)
(* targets of one kind share as well.  So a behaviour follows one kind of  *)
(* target, or one kind of handler beside checks of a mining contract.      *)
(***************************************************************************)
EXTENDS PausingManager, TLC

Mining == Target \ (YieldContract \cup MarketOfFactory)

Untouched(T) ==
    \A t \in T : /\ cachedStatus[t].timestamp = 0
                 /\ \A s \in ScopesOf(t) : ~pausedAt[s] /\ ~lockedAt[s]

FollowsFlags ==
    /\ \E T \in {YieldContract, MarketOfFactory, Mining} : Untouched(Target \ T)
    /\ \A k \in Kind : requestedAt[k] = 0 /\ ~handlerLocked[k]

FollowsHandlers ==
    /\ Untouched(Target \ Mining)
    /\ \A s \in Scope : ~pausedAt[s] /\ ~lockedAt[s]
    /\ \E k \in Kind : \A j \in Kind \ {k} : requestedAt[j] = 0

MCNext == Next /\ (FollowsFlags' \/ FollowsHandlers')

MCSpec == Init /\ [][MCNext]_vars

Symmetry == Permutations(Expiry)
=============================================================================
