---------------------------- MODULE MCGroupQuery ----------------------------
(***************************************************************************)
(* What the words of the search box find in the instances of GroupQuery.   *)
(***************************************************************************)
EXTENDS GroupQuery

\* Two words that share an answer, one that finds a relation only.
MCFinds ==
    [w \in {"ma", "ka", "dozent"} |->
        CASE w = "ma" -> {"g1", "g2"}
          [] w = "ka" -> {"g2", "g3"}
          [] w = "dozent" -> {"g1#dozent", "g3"}]
=============================================================================
