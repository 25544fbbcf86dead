--------------------------- MODULE PauseRegister ---------------------------
(***************************************************************************)
(* What the pausing manager promises the contracts that consult it: a      *)
(* register of pause and lock flags, read without delay.  There is no      *)
(* clock and no cache here; a question about a target is answered from the *)
(* flags as they are at that moment, also when the answer is the same as   *)
(* before: asked tells such an answer from no answer.  PausingManager is   *)
(* shown to implement this specification.                                  *)
(***************************************************************************)

CONSTANTS
    Scope,      \* what a flag can be set for: a forge, one of its assets, ...
    Target,     \* what is asked about: a yield contract, a market, ...
    ScopesOf(_) \* the scopes that decide the status of a target

VARIABLES
    pausedAt,   \* the flag "paused" of each scope
    lockedAt,   \* the flag "locked" of each scope
    permLocked, \* no flag changes any more
    answers,    \* the status each target was last told
    asked       \* the targets told since the last write to a flag

registerVars == <<pausedAt, lockedAt, permLocked, answers, asked>>

(* A locked target is paused by default as well. *)
StatusOf(t) ==
    LET locked == \E s \in ScopesOf(t) : lockedAt[s]
    IN  [locked |-> locked,
         paused |-> locked \/ \E s \in ScopesOf(t) : pausedAt[s]]

Free == [locked |-> FALSE, paused |-> FALSE]

RegisterInit ==
    /\ pausedAt = [s \in Scope |-> FALSE]
    /\ lockedAt = [s \in Scope |-> FALSE]
    /\ permLocked = FALSE
    /\ answers = [t \in Target |-> Free]
    /\ asked = {}

WriteFlag ==
    /\ ~permLocked
    /\ \E s \in Scope, b \in BOOLEAN :
          \/ pausedAt' = [pausedAt EXCEPT ![s] = b] /\ UNCHANGED lockedAt
          \/ lockedAt' = [lockedAt EXCEPT ![s] = TRUE] /\ UNCHANGED pausedAt
    /\ asked' = {}
    /\ UNCHANGED <<permLocked, answers>>

Freeze ==
    /\ ~permLocked
    /\ permLocked' = TRUE
    /\ UNCHANGED <<pausedAt, lockedAt, answers, asked>>

Ask(t) ==
    /\ answers' = [answers EXCEPT ![t] = StatusOf(t)]
    /\ asked' = asked \cup {t}
    /\ UNCHANGED <<pausedAt, lockedAt, permLocked>>

RegisterNext == WriteFlag \/ Freeze \/ \E t \in Target : Ask(t)

RegisterSpec == RegisterInit /\ [][RegisterNext]_registerVars
=============================================================================
