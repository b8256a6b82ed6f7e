-------------------------------- MODULE EpRules --------------------------------
(***************************************************************************)
(* EP (Emoji Power), the rating of a player: a u16.  The arithmetic of     *)
(* common/rs/src/mtc/ep.rs and of contract/game/src/functions.rs.          *)
(***************************************************************************)
EXTENDS Integers

INITIAL_EP          == 300
EP_BANDWIDTH        == 100
MAX_EP              == 65535
MIN_EP              == 1
EP_UNFINISH_PENALTY == 60

\* Every EP the contract can store
Ep == MIN_EP .. MAX_EP

\* ep::get_ep_band: matchmaking buckets of EP_BANDWIDTH points
GetEpBand(ep) == ep \div EP_BANDWIDTH

Band == 0 .. GetEpBand(MAX_EP)

\* ep::reduce_ep: a u16 saturating_sub, then never below MIN_EP
ReduceEp(ep, minus) == IF ep - minus > MIN_EP THEN ep - minus ELSE MIN_EP

\* u16::saturating_add
SaturatingAdd(a, b) == IF a + b > MAX_EP THEN MAX_EP ELSE a + b

\* The gain of a first or second place fades by one point per 40 EP above the
\* initial EP, down to a single point
Gain(plus, old_ep) ==
  LET x == (old_ep - INITIAL_EP) \div 40
  IN  IF old_ep > INITIAL_EP THEN (IF x < plus THEN plus - x ELSE 1) ELSE plus

\* functions::calc_new_ep; defined for the places 1 .. 4, any other place panics
CalcNewEp(place, old_ep) ==
  CASE place = 1 -> SaturatingAdd(Gain(70, old_ep), old_ep)
    [] place = 2 -> SaturatingAdd(Gain(50, old_ep), old_ep)
    [] place = 3 -> ReduceEp(old_ep, 30)
    [] place = 4 -> ReduceEp(old_ep, 50)

\* functions::build_initial_ghost_states, the health given to each rival
InitialGhostHealth(ep) ==
  LET band == GetEpBand(ep) IN IF band >= 8 THEN 30 ELSE 14 + 2 * band

================================================================================
