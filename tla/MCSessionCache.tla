--------------------------- MODULE MCSessionCache ---------------------------
(* Two Redis instances, two revokers and one filler for TLC.               *)
EXTENDS SessionCache, TLC

\* Neither caches nor revokers are told apart.
CacheSymmetry == Permutations(Caches) \cup Permutations(Revokers) \cup Permutations(Fillers)
=============================================================================
