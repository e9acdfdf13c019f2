------------------------------ MODULE MCSpecDoc ------------------------------
(* A small instance of SpecDoc: up to two questions per check, and a         *)
(* follow-up.  A check may return an id twice, a follow-up may have an id    *)
(* that a check returns, and either may have the completion question's, 2,   *)
(* which sorts between the others.                                           *)
EXTENDS SpecDoc

MCQuestions == {1, 2, 3}
MCFollowUps == {1, 2}
MCQuestionTexts == {"why"}

=============================================================================
