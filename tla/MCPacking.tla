------------------------------ MODULE MCPacking ------------------------------
EXTENDS Packing

MCShapes ==
  {<<n>> : n \in 1 .. 4} \union {<<m, n>> : m, n \in 1 .. 3} \union {<<2, 1, 3>>, <<2, 3, 2>>}
=============================================================================
