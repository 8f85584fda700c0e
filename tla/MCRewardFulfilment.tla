------------------------ MODULE MCRewardFulfilment ------------------------
(***************************************************************************)
(* TLC instances of RewardFulfilment.  The base rewards of a referrer and  *)
(* a referee, whose keys name the milestone, and a mission bonus of the    *)
(* referrer, whose key does not and is that of a replay of the referrer's  *)
(* base reward.  The limit refuses the bonus.                              *)
(***************************************************************************)
EXTENDS RewardFulfilment, TLC

CONSTANTS
  w1, w2, referrer, referee, bonus,
  referrerMilestone, refereeMilestone, referrerDefault, refereeDefault

OwnKeys == [r \in {referrer, referee, bonus} |->
  CASE r = referrer -> referrerMilestone
    [] r = referee -> refereeMilestone
    [] r = bonus -> referrerDefault]

DefaultKeys == [r \in {referrer, referee, bonus} |->
  IF r = referee THEN refereeDefault ELSE referrerDefault]

AllAmounts == [r \in {referrer, referee, bonus} |-> IF r = bonus THEN 3 ELSE 1]

OwnKey == [r \in Rewards |-> OwnKeys[r]]
DefaultKey == [r \in Rewards |-> DefaultKeys[r]]
Amounts == [r \in Rewards |-> AllAmounts[r]]

\* Workers are alike.
WorkerSymmetry == Permutations(Workers)
=============================================================================
