------------------------------ MODULE MCSignIn ------------------------------
(***************************************************************************)
(* Finite instances of SignIn for TLC.                                     *)
(***************************************************************************)
EXTENDS SignIn

CONSTANT m1

\* All is set; or a name of one door is missing, another door, or a name of mail's.
SmallEnvironments ==
    {Names, Names \ {"GOOGLE_CLIENT_SECRET"}, Names \ Required["oidc"], Names \ {"MAIL_FROM"}}
=============================================================================
