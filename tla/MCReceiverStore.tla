--------------------------- MODULE MCReceiverStore ---------------------------
(* Instances of ReceiverStore for TLC: two pods with one worker each, or with *)
(* a second worker on the first; one receiver, or two of one destination.     *)
EXTENDS ReceiverStore, TLC

CONSTANTS p1, p2, w1, w2, w3, a, b

OneWorkerEach == w1 :> p1 @@ w2 :> p2
TwoOnFirst == w1 :> p1 @@ w2 :> p2 @@ w3 :> p1

OneDest == a :> "here" @@ b :> "here"
Alone == a :> "here"

\* Webhook ids are interchangeable, and so are the receivers of one destination.
Symmetry == Permutations(Hooks) \cup Permutations(Names)

=============================================================================
