------------------------- MODULE MCCreateReconciler -------------------------
(* Instances of CreateReconciler for TLC.  Transaction 1 deploys a factory.  *)
EXTENDS CreateReconciler, TLC

By(creator) == [by |-> creator, ok |-> TRUE]
Rejected(creator) == [by |-> creator, ok |-> FALSE]

\* A call of the factory: it creates once or twice, a creation may fail, and
\* what it created may create in its turn.
FactoryTraces == {<<By(0)>>, <<Rejected(0), By(0)>>, <<By(0), By(1)>>}

\* A transparent proxy: its constructor creates the ProxyAdmin, its initializer
\* may create more, itself or through the factory or a foreign contract.  The
\* last transaction calls the factory.
ProxyTraces ==
  {<<By(0)>>, <<By(0), By(0)>>, <<By(0), Rejected(0)>>, <<By(0), By(-2)>>, <<By(0), By(-1)>>}
MCTraces == 1 :> {<< >>} @@ 2 :> ProxyTraces @@ 3 :> FactoryTraces
MCTo == 3 :> <<1>>

\* Addresses that the planned deployments and children will want, and one
\* that nothing wants.
AdoptableAddresses == {<<2, 1>>, <<2>>, <<9>>}
=============================================================================
