---------------------------- MODULE MCStrandSync ----------------------------
(***************************************************************************)
(* Small instances of StrandSync.                                          *)
(***************************************************************************)
EXTENDS StrandSync

CONSTANTS v, p, q, c, d

OneVisitor == {v}
OneProducer == {p}
TwoProducers == {p, q}
OneConsumer == {c}
TwoConsumers == {c, d}
NoneOf == {}
=============================================================================
