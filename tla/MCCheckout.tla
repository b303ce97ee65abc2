----------------------------- MODULE MCCheckout -----------------------------
(* Instances of Checkout.                                                  *)
EXTENDS Checkout, TLC

CheckoutSymmetry ==
    Permutations(Repository) \cup Permutations(Attempt)
        \cup Permutations(Reservation) \cup Permutations(Request)
=============================================================================
