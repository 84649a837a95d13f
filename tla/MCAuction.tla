------------------------------ MODULE MCAuction ------------------------------
(* Three partners, two users.  A threshold below the minimum, which one     *)
(* offer or two may meet, and an invited id without a plugin reach every    *)
(* branch of the criteria.                                                  *)
EXTENDS Auction
=============================================================================
