------------------------------ MODULE MCCrudSync ------------------------------
\* Model-checking instance of CrudSync: the sites are interchangeable.
EXTENDS CrudSync, TLC
Symmetry == Permutations(Sites)
===============================================================================
