------------------------- MODULE MCWebhookProcessor -------------------------
(* Symmetry sets of the runs; schedulers are told apart from the other      *)
(* replay clients, so the two kinds are permuted separately.                *)
EXTENDS WebhookProcessor, TLC

ActorSymmetry == Permutations(Dispatchers) \cup Permutations(Workers)
                 \cup Permutations(Schedulers)
                 \cup Permutations(Replayers \ Schedulers)

Symmetry == ActorSymmetry \cup Permutations(Events)
=============================================================================
