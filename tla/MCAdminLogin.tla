---------------------------- MODULE MCAdminLogin ----------------------------
EXTENDS AdminLogin, TLC

LoginSymmetry == Permutations(Client) \cup Permutations(Request)
=============================================================================
