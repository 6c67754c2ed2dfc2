------------------------------ MODULE RateBound ------------------------------
(***************************************************************************)
(* What the per-client limiter promises: each client has one bucket, full  *)
(* at first, that refills continuously up to the burst and is never        *)
(* forgotten; a request is let through exactly when a token is left.       *)
(*                                                                         *)
(* Tokens are counted in units of what one tick refills, so a token is     *)
(* Unit units and refillPerSec is one unit per tick.                       *)
(***************************************************************************)
EXTENDS Integers

CONSTANTS Clients, Callers, Capacity, Unit

VARIABLES
  level,    \* the units in each client's bucket now
  verdict   \* the last answer each caller got

RBInit ==
  /\ level = [c \in Clients |-> Capacity]
  /\ verdict = [t \in Callers |-> "none"]

RBTick ==
  /\ level' = [c \in Clients |-> IF level[c] + 1 <= Capacity THEN level[c] + 1 ELSE Capacity]
  /\ UNCHANGED verdict

RBAsk(t) == verdict' = [verdict EXCEPT ![t] = "none"] /\ UNCHANGED level

RBAllow(t, c) ==
  /\ verdict' = [verdict EXCEPT ![t] = IF level[c] >= Unit THEN "allow" ELSE "deny"]
  /\ level' = [level EXCEPT ![c] = IF @ >= Unit THEN @ - Unit ELSE @]

RBNext ==
  \/ RBTick
  \/ \E t \in Callers : RBAsk(t) \/ \E c \in Clients : RBAllow(t, c)

RBSpec == RBInit /\ [][RBNext]_<<level, verdict>>
=============================================================================
