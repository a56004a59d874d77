------------------------------ MODULE MCAdmin -------------------------------
EXTENDS Admin, TLC
CONSTANTS t1, t2, b1, b2, d1, d2, root, admin2, agent
MCTenantOf == b1 :> t1 @@ b2 :> t2
MCUserTenant == root :> None @@ admin2 :> None @@ agent :> t2
MCSymmetry == Permutations(Requests)
=============================================================================
