---------------------------- MODULE MCSystemCubes ----------------------------
EXTENDS SystemCubes, TLC

CONSTANTS Region, Product, north, South, NORTH, n, s, p, q,
          salesRegion, salesProduct

MCNames == {north, South, NORTH}
MCKeys  == {n, s}
MCKey   == north :> n @@ NORTH :> n @@ South :> s
MCOver  == salesRegion :> Region @@ salesProduct :> Product

(* Two spellings of one member in one dimension and in another.            *)
MCBatches ==
    p :> <<[dim |-> Region, name |-> north], [dim |-> Product, name |-> South]>> @@
    q :> <<[dim |-> Region, name |-> South], [dim |-> Product, name |-> NORTH],
           [dim |-> Region, name |-> NORTH]>>
===============================================================================
