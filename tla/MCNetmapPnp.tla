----------------------------- MODULE MCNetmapPnp -----------------------------
EXTENDS NetmapPnp

Board(family, phy, f, w, b) ==
  [family |-> family, phy |-> phy, faults |-> f, rewrites |-> w, rebalances |-> b]
MCAdapters ==
  {Board("82540", TRUE, 0, 1, 0), Board("82540", TRUE, 1, 0, 1),
   Board("82540", FALSE, 0, 0, 0), Board("other", TRUE, 0, 0, 0)}

Holding(w) == [i \in Offsets |-> IF i < Len(w) THEN w[i + 1] ELSE 0]
MCContents == {Holding(<<1, 2, 3, 0>>), Holding(<<1, 2, 3, 1>>)}
MCMaxTimeouts == [grant |-> 1, write |-> 1]
MCRewrites == {<<3, 0, 2>>}
=============================================================================
