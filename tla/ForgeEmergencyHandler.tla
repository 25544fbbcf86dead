----------------------- MODULE ForgeEmergencyHandler -----------------------
(***************************************************************************)
(* contracts/core/emergency/PendleForgeEmergencyHandler.sol.  Once a yield *)
(* contract is locked, governance sets the handler up as the spender of    *)
(* what its yieldTokenHolder has, and each holder of OT withdraws his      *)
(* share once.  The rewards are withdrawn by the same formula as the yield *)
(* tokens and are left out.                                                *)
(***************************************************************************)
EXTENDS Integers, FiniteSetsExt

CONSTANTS
    Contract,     \* (forge, underlyingAsset, expiry)
    User,
    RONE,         \* one, as a fixed-point number
    Balances,     \* OT balances a user may have when a contract is locked
    Funds         \* yield tokens a holder may have then

VARIABLES
    locked,         \* the contracts in emergency mode
    ot,             \* balances of OT, frozen by the lock
    held,           \* yield tokens of the yieldTokenHolder
    approved,       \* the handler may spend the holder's tokens
    recorded,       \* forgeData[..].yieldTokenHolder # address(0)
    totalOt,        \* forgeData[..].totalOt
    haveWithdrawn   \* forgeData[..].haveWithdrawn, as a set

vars == <<locked, ot, held, approved, recorded, totalOt, haveWithdrawn>>

Init ==
    /\ locked = {}
    /\ ot \in [Contract -> [User -> Balances]]
    /\ held \in [Contract -> Funds]
    /\ approved = {}
    /\ recorded = {}
    /\ totalOt = [c \in Contract |-> 0]
    /\ haveWithdrawn = [c \in Contract |-> {}]

(* Governance locks the yield contract in the pausing manager. *)
Lock(c) ==
    /\ locked' = locked \cup {c}
    /\ UNCHANGED <<ot, held, approved, recorded, totalOt, haveWithdrawn>>

(* By governance.  The forge answers only in emergency mode, and the       *)
(* allowance of a holder can be given only once.                           *)
SetUpEmergencyMode(c) ==
    /\ c \in recorded
    /\ c \in locked
    /\ c \notin approved
    /\ approved' = approved \cup {c}
    /\ recorded' = recorded \cup {c}
    /\ totalOt' = [totalOt EXCEPT ![c] = MapThenSumSet(LAMBDA u : ot[c][u], User)]
    /\ UNCHANGED <<locked, ot, held, haveWithdrawn>>

rdiv(x, y) == (y \div 2 + x * RONE) \div y

rmul(x, y) == (RONE \div 2 + x * y) \div RONE

Withdraw(c, u) ==
    /\ u \notin haveWithdrawn[c]
    /\ c \in recorded
    /\ totalOt[c] # 0
    /\ LET out == rmul(rdiv(ot[c][u], totalOt[c]), held[c])
       IN  /\ c \in approved /\ out <= held[c]
           /\ held' = [held EXCEPT ![c] = @ - out]
    /\ ot[c][u] <= totalOt[c]
    /\ totalOt' = [totalOt EXCEPT ![c] = @ - ot[c][u]]
    /\ haveWithdrawn' = [haveWithdrawn EXCEPT ![c] = @ \cup {u}]
    /\ UNCHANGED <<locked, ot, approved, recorded>>

Next == \E c \in Contract : \/ Lock(c)
                            \/ SetUpEmergencyMode(c)
                            \/ \E u \in User : Withdraw(c, u)

Spec == Init /\ [][Next]_vars

(* "if this set of params has been used before, fod.yieldTokenHolder must  *)
(* be != 0" (PendleForgeEmergencyHandler.sol:58), and the require below it *)
(* answers DUPLICATED_EMERGENCY_SETUP: what is refused is the second set   *)
(* up, so a locked contract not yet set up can be.  The require asks for   *)
(* the opposite, and no contract ever can.                                 *)
OnlyDuplicatesRefused ==
    \A c \in Contract : c \in locked /\ c \notin recorded => ENABLED SetUpEmergencyMode(c)
=============================================================================
