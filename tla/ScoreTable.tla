----------------------------- MODULE ScoreTable -----------------------------
(***************************************************************************)
(* The table of best scores that count_score keeps                         *)
(* (nios/ECE385_src/gamelogic.c; declared in main.c).                      *)
(***************************************************************************)
EXTENDS Integers, FiniteSets

CONSTANT NScores   \* entries of player_scores

ASSUME NScoresAssumption == NScores \in Nat \ {0}

Entries == 0 .. NScores - 1
Tables == [Entries -> Nat]

(* The search "p_score >= player_scores[i]" has stopped at k or before.    *)
Stopped(t, p, k) == \E i \in 0 .. k : p >= t[i]

(* Entries from the insertion point on move down one place, the last one   *)
(* drops out.  A score below every entry is written to the element after   *)
(* the last one, which is no part of the table.                            *)
CountUnshifted(t, p) ==   \* mutant: overwrites instead of inserting
  [k \in Entries |-> IF Stopped(t, p, k) /\ ~ (k > 0 /\ Stopped(t, p, k - 1))
                       THEN p ELSE t[k]]
CountScore(t, p) ==
  [k \in Entries |->
    IF ~ Stopped(t, p, k) THEN t[k]
    ELSE IF k > 0 /\ Stopped(t, p, k - 1) THEN t[k - 1]
    ELSE p]

(* How many entries reach v                                                *)
Reaching(t, v) == Cardinality({k \in Entries : t[k] >= v})

(* u holds the NScores best of the scores in t and p.                      *)
BestOf(u, t, p) ==
  /\ \A k \in Entries : k > 0 => u[k - 1] >= u[k]
  /\ \A v \in {p} \cup {t[k] : k \in Entries} \cup {u[k] : k \in Entries} :
       LET n == Reaching(t, v) + (IF p >= v THEN 1 ELSE 0) IN
       Reaching(u, v) = IF n > NScores THEN NScores ELSE n
=============================================================================
