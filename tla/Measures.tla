------------------------------- MODULE Measures -------------------------------
(***************************************************************************)
(* What comes to its end because a number counts down to it: the words in  *)
(* which the liveness theorems of the proof modules are stated.            *)
(***************************************************************************)
EXTENDS Naturals

\* From every value, m comes to fall, unless G comes first.
LeadsDown(m, G) == \A k \in Nat : (m = k) ~> (G \/ m < k)

\* The rule of descent, for a measure m and a goal G: what keeps falling in the natural
\* numbers until G comes, comes to G.  It holds of every behaviour; its proof is an
\* induction over a temporal formula, which the provers do not do.
Descent(m, G) == [](m \in Nat) /\ LeadsDown(m, G) => []<>G

===============================================================================
