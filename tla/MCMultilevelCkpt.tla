-------------------------- MODULE MCMultilevelCkpt --------------------------
(* Values of MultilevelCkpt's constants that a configuration file cannot spell. *)
EXTENDS MultilevelCkpt

\* Every process but the first has a smaller file than the first.
ShortTwo == {<<1, 0>>, <<2, 0>>}
=============================================================================
