------------------------------ MODULE Leaderboard ------------------------------
(***************************************************************************)
(* The leaderboard: functions::update_leaderboard, called once for every   *)
(* finished match with the EP it ended on.                                 *)
(***************************************************************************)
EXTENDS EpRules, Sequences, SequencesExt

CONSTANT LeaderboardSize  \* 100

ASSUME LeaderboardAssumption == LeaderboardSize \in Nat \ {0}

VARIABLES
  leaderboard,  \* sequence of [ep, account], the best first
  best          \* history: the highest EP an account finished a match on, 0 if none

leaderboardVars == <<leaderboard, best>>

LeaderboardInit(accounts) == leaderboard = <<>> /\ best = [a \in accounts |-> 0]

LeaderboardTypeOK(accounts) ==
  /\ leaderboard \in Seq([ep : Ep, account : accounts])
  /\ best \in [accounts -> {0} \cup Ep]

\* Both searches of the loop return the first index, 0 for none
SameAccount(ranks, account) == SelectInSeq(ranks, LAMBDA e : e.account = account)
NewPos(ranks, ep)           == SelectInSeq(ranks, LAMBDA e : e.ep <= ep)

\* Mutant: a swap for the rotation
MoveUpBySwap(ranks, same, pos, entry) == [ranks EXCEPT ![same] = ranks[pos], ![pos] = entry]

\* A ranked account improves: the ranks between its old and its new one move down by one
MoveUp(ranks, same, pos, entry) == InsertAt(RemoveAt(ranks, same), pos, entry)

\* Mutant: `push` for `insert`
EnterAtEnd(ranks, pos, entry) ==
  IF Len(ranks) < LeaderboardSize THEN Append(ranks, entry) ELSE ranks

\* Mutant: the truncate is missing
EnterUntruncated(ranks, pos, entry) ==
  IF pos # 0 THEN InsertAt(ranks, pos, entry)
  ELSE IF Len(ranks) < LeaderboardSize THEN Append(ranks, entry)
  ELSE ranks

\* A new account enters, and the last of a full board leaves it
Enter(ranks, pos, entry) ==
  IF pos # 0 THEN SubSeq(InsertAt(ranks, pos, entry), 1, Min({Len(ranks) + 1, LeaderboardSize}))
  ELSE IF Len(ranks) < LeaderboardSize THEN Append(ranks, entry)
  ELSE ranks

\* functions::update_leaderboard; the code's None, leave the storage alone, is the
\* unchanged leaderboard
UpdateLeaderboard(ranks, ep, account) ==
  LET same  == SameAccount(ranks, account)
      pos   == NewPos(ranks, ep)
      entry == [ep |-> ep, account |-> account]
  IN  IF same = 0 THEN Enter(ranks, pos, entry)
      ELSE IF ranks[same].ep > ep \/ (same = pos /\ ranks[same].ep = ep) THEN ranks
      ELSE MoveUp(ranks, same, pos, entry)

\* The part of finish_mtc that ranks a player who ends a match on an EP
Rank(account, ep) ==
  /\ leaderboard' = UpdateLeaderboard(leaderboard, ep, account)
  /\ best' = [best EXCEPT ![account] = Max({@, ep})]

--------------------------------------------------------------------------------

\* No account is ranked twice, and the EPs never rise down the board
\* (update_leaderboard's rotate_right and insert keep the order)
RanksOrdered ==
  \A i, j \in DOMAIN leaderboard :
    i < j => /\ leaderboard[i].ep >= leaderboard[j].ep
             /\ leaderboard[i].account # leaderboard[j].account

\* The board lists the best players by the best EP they ever finished on: a ranked
\* account shows its best, and a player is missing only from a full board on which
\* everyone is at least as good (early returns, truncation and re-entry included)
RanksTheBest ==
  /\ Len(leaderboard) <= LeaderboardSize
  /\ \A i \in DOMAIN leaderboard : leaderboard[i].ep = best[leaderboard[i].account]
  /\ \A a \in DOMAIN best :
       \/ best[a] = 0
       \/ \E i \in DOMAIN leaderboard : leaderboard[i].account = a
       \/ /\ Len(leaderboard) = LeaderboardSize
          /\ \A i \in DOMAIN leaderboard : leaderboard[i].ep >= best[a]

\* Every rank after the step that is not the account's was one before, and any two of
\* them are in the order they had
OthersStay(account) ==
  \A i, j \in DOMAIN leaderboard' :
    i < j /\ leaderboard'[i].account # account /\ leaderboard'[j].account # account =>
      \E k, l \in DOMAIN leaderboard :
        k < l /\ leaderboard[k] = leaderboard'[i] /\ leaderboard[l] = leaderboard'[j]

\* Ranking one account never reorders the others, nor lets in an account that did
\* not just finish a match
OthersKeepRank == [][\E a \in DOMAIN best : OthersStay(a)]_leaderboard

================================================================================
