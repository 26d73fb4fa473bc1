------------------------------ MODULE MCConsole ------------------------------
(***************************************************************************)
(* An instance of sign-in and the admin console, and of the certificate    *)
(* the console replaces.  The two share no state, so a behaviour is one of *)
(* them; signing in is looked at with two requests at a time and two       *)
(* logins, and at one moment with one request and more logins than fit.    *)
(***************************************************************************)
EXTENDS SignIn, CertificateSwap, TLC

CONSTANTS t1, t2

VARIABLE desk   \* "requests", "logins" or "certificate"

consoleVars == <<desk, signInVars, certVars>>

MCThreads == {t1, t2}
MCSymmetry == Permutations(MCThreads)

ConsoleInit ==
    /\ desk \in {"requests", "logins", "certificate"}
    /\ SignInInit /\ CertInit
    /\ desk = "certificate" => password = 0

OneRequest == Cardinality({t \in Threads : request[t] # NoRequest}) <= 1

ConsoleNext ==
    /\ UNCHANGED desk
    /\ \/ desk = "requests" /\ SignInNext /\ issued' <= 2 /\ UNCHANGED certVars
       \/ desk = "logins" /\ SignInNext /\ UNCHANGED now /\ OneRequest' /\ UNCHANGED certVars
       \/ desk = "certificate" /\ CertNext /\ UNCHANGED signInVars

ConsoleSpec == ConsoleInit /\ [][ConsoleNext]_consoleVars
=============================================================================
