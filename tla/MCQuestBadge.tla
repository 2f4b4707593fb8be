---------------------------- MODULE MCQuestBadge ----------------------------
(* Instances of QuestBadge for TLC.                                        *)
EXTENDS QuestBadge, TLC

CONSTANTS b1, b2, b3, b4, q1, q2, u1, u2

MCSymmetry == Permutations({b1, b2, b3, b4}) \union Permutations({u1, u2})
                \union Permutations({q1, q2})
=============================================================================
