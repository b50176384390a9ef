-------------------------- MODULE MCRunningInvoice --------------------------
(* An instance of RunningInvoice for TLC: an Evergreen and a Specific item,  *)
(* and formulas good and bad.                                               *)
EXTENDS RunningInvoice

CONSTANTS e1, s1

Deadlines == [c \in {e1, s1} |-> IF c = e1 THEN 1 ELSE 2]

Tier(threshold, bonus) == [threshold |-> threshold, bonus |-> bonus]

Rising == [metric |-> "views", tiers |-> {Tier(1, 1), Tier(2, 5)}]
Falling == [metric |-> "views", tiers |-> {Tier(1, 5), Tier(2, 1)}]
Unreadable == [metric |-> "shares", tiers |-> {Tier(1, 1)}]

WithRules(onInstagram, onTikTok) ==
    [specificBonus |-> 3, latePenaltyPerDay |-> 4, maxPenaltyDays |-> 3,
     performanceBonus |-> [p \in {"instagram", "tiktok"} |->
                             IF p = "instagram" THEN onInstagram ELSE onTikTok]]

Forms == {WithRules(Rising, Unreadable), WithRules(Rising, Falling)}
=============================================================================
