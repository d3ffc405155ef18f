----------------------------- MODULE MCCheckout -----------------------------
(* Instances of Checkout for TLC. *)
EXTENDS Checkout, TLC

Pay(user, key, lines, coupon, points, intent) ==
  [user |-> user, key |-> key, lines |-> lines, coupon |-> coupon,
   points |-> points, intent |-> intent]

\* Two carts that take the same two items in opposite order, and another cart
\* that its user sends with the key of the first.
Carts ==
  { Pay("u1", "k1", <<"a", "b">>, FALSE, 0, "i1"),
    Pay("u2", "k2", <<"b", "a">>, FALSE, 0, "i2"),
    Pay("u1", "k1", <<"b">>, FALSE, 0, "i3") }

CartAmount == [i \in {"i1", "i2", "i3"} |-> IF i = "i3" THEN 10 ELSE 20]
OneEach    == [x \in {"a", "b"} |-> 1]

\* One item, three payments: two want the same points, two the last redemption
\* of a coupon.
Savers ==
  { Pay("u1", "k1", <<"a">>, TRUE, 3, "i1"),
    Pay("u1", "k2", <<"a">>, FALSE, 3, "i2"),
    Pay("u1", "k3", <<"a">>, TRUE, 0, "i3") }

SaverAmount == [i \in {"i1", "i2", "i3"} |-> IF i = "i1" THEN 4 ELSE 7]
ThreeEach   == [x \in {"a"} |-> 3]
ThreePoints == [u \in {"u1"} |-> 3]
NoPoints    == [u \in {"u1", "u2"} |-> 0]

Interchangeable == Permutations(Shoppers) \cup Permutations(Guests)
=============================================================================
