---------------------------- MODULE MCMembership ----------------------------
(* Two people, one of them in two tabs, and two institutions for TLC. *)
EXTENDS Membership, TLC

CONSTANTS k1, k2, e1, e2, i1, i2, s1, s2, s3

OwnEmails == k1 :> e1 @@ k2 :> e2
NobodySeeded == k1 :> None @@ k2 :> None
SecondSeeded == k1 :> None @@ k2 :> i2
TwoTabs == s1 :> k1 @@ s2 :> k2 @@ s3 :> k1
=============================================================================
