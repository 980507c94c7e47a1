--------------------------- MODULE MCFacebookPosts ---------------------------
(* FacebookPosts on small instances. *)
EXTENDS FacebookPosts, TLC

Sym == Permutations(Requests) \cup Permutations(Schedulers)
=============================================================================
