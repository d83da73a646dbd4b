----------------------------- MODULE MCShorteners -----------------------------
EXTENDS Shorteners
Sym == Permutations(Codes) \cup Permutations(Urls)
===============================================================================
