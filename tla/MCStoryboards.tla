---------------------------- MODULE MCStoryboards ----------------------------
(* Storyboards for TLC.                                                     *)
EXTENDS Storyboards, TLC

CONSTANTS s1, s2, u1, t1, t2

OneStory == {s1}
TwoStories == {s1, s2}
OneUser == {u1}
TwoTasks == {t1, t2}

TaskSymmetry == Permutations(TwoTasks)
Symmetry == TaskSymmetry \cup Permutations(TwoStories)
=============================================================================
