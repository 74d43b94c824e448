------------------------------ MODULE MCWriteApi ------------------------------
EXTENDS WriteApi, TLC

CONSTANTS p, q,                       \* requests in flight
          east, west, north,          \* leaf coordinates; north is missing
          total, profit, void         \* consolidated coordinates

TwoBatches == {p, q}
MCLeaves   == {east, west}
MCMissing  == {north}

(* Unit weights, weights of both signs, a member whose leaves are deleted. *)
MCExpansion == (total  :> (east :> 1 @@ west :> 1)) @@
               (profit :> (east :> 1 @@ west :> -1)) @@
               (void   :> <<>>)

Empty == [c \in MCLeaves \cup MCMissing |-> None]
Used  == {Empty, [Empty EXCEPT ![east] = 5, ![west] = 0]}

At(a, v) == [at |-> a, value |-> v]
Asking(lists, modes, create) ==
    [cells : lists, splash : modes, createMissing : create]

(* Cells of every sort, valid and not, one before the other and after it.  *)
Lists ==
    {<<>>, <<At(east, 1)>>, <<At(north, 1)>>, <<At(west, Text)>>, <<At(total, 2)>>,
     <<At(east, 1), At(west, Text)>>, <<At(north, 1), At(void, 2)>>,
     <<At(total, 2), At(east, 1)>>, <<At(north, 1), At(west, Text)>>}

(* Splashes over leaves that hold something, one before a failing cell and *)
(* one after a leaf.                                                       *)
Splashes ==
    {<<At(a, v)>> : a \in {total, profit}, v \in {-2, 4}}
    \cup {<<At(total, 2), At(void, 2)>>, <<At(west, 1), At(total, 2)>>}

MCRequests ==
    Asking(Lists, {"reject", "add"}, BOOLEAN) \cup Asking(Splashes, {"replace", "add"}, {FALSE})
===============================================================================
