--------------------------- MODULE TokenLifecycle ---------------------------
(***************************************************************************)
(* What the challenge manager promises, without its map, its mutex or its  *)
(* handlers: a grant is offered once to one holder with a deadline, it is  *)
(* redeemed at most once and never after that deadline, and a grant that   *)
(* has been revoked never comes back.  README.md, "Challenge Token         *)
(* Security": single-use, time-limited, bound to one client.               *)
(***************************************************************************)
EXTENDS Integers

CONSTANTS
  GrantId,   \* names of grants
  Holder,    \* those a grant may be made out to
  Lifetime   \* ticks between the start of an offer and its deadline

VARIABLES
  time,   \* the clock
  grant   \* GrantId -> Unused or [state, holder, deadline]

\* Nothing was offered under this name yet.
Unused == [state |-> "unused"]

Init == /\ time = 0
        /\ grant = [i \in GrantId |-> Unused]

\* The clock moves by itself.
Advance == time' = time + 1 /\ UNCHANGED grant

\* The deadline counts from an instant no later than the offer itself, so an
\* offer that was slow in the making has less than a lifetime left.
Offer(i, h) ==
  /\ grant[i] = Unused
  /\ \E start \in 0..time :
        grant' = [grant EXCEPT ![i] =
                    [state |-> "live", holder |-> h, deadline |-> start + Lifetime]]
  /\ UNCHANGED time

Redeem(i) ==
  /\ grant[i].state = "live"
  /\ time <= grant[i].deadline
  /\ grant' = [grant EXCEPT ![i].state = "redeemed"]
  /\ UNCHANGED time

\* Any set of live grants may be lost together: one to a failed attempt, all
\* of them to a restart.
Revoke(S) ==
  /\ \A i \in S : grant[i].state = "live"
  /\ grant' = [i \in GrantId |-> IF i \in S
                                 THEN [grant[i] EXCEPT !.state = "revoked"]
                                 ELSE grant[i]]
  /\ UNCHANGED time

Next ==
  \/ Advance
  \/ \E i \in GrantId, h \in Holder : Offer(i, h)
  \/ \E i \in GrantId : Redeem(i)
  \/ \E S \in SUBSET GrantId : Revoke(S)

Spec == Init /\ [][Next]_<<time, grant>>
=============================================================================
