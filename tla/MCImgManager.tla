----------------------------- MODULE MCImgManager -----------------------------
(* Instances of ImgManager for TLC. *)
EXTENDS ImgManager

CONSTANTS p1, p2, i1

\* Two generations of one image: a new digest makes another pod.
PodOfGen(g, i) == IF g = 1 THEN p1 ELSE p2

AllPhases  == Status
UpAndDown  == {"unready", "ready"}

NoFaults  == {}
CloseOnly == {"close"}
AllFaults == {"digest", "api", "close", "service", "retry", "dial"}

=============================================================================
