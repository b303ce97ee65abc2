-------------------------- MODULE FencedEnvironment -------------------------
(***************************************************************************)
(* What the lease repository promises about one environment at a time,     *)
(* whatever calls reach it: a holder is granted a token newer than every   *)
(* earlier one, only into an empty environment that is not in quarantine;  *)
(* taking an environment away from a holder that did not let go puts it in *)
(* quarantine until somebody has accounted for that holder.                *)
(***************************************************************************)
EXTENDS Integers

CONSTANTS Env, Holder, None
VARIABLES holder, fence, quarantine, token

fencedVars == <<holder, fence, quarantine, token>>

FencedInit ==
    /\ holder = [e \in Env |-> None]
    /\ fence = [e \in Env |-> 0]
    /\ quarantine = [e \in Env |-> None]
    /\ token = [h \in Holder |-> 0]

\* A holder is granted the environment once, with a fresh token.
Grant(e, h) ==
    /\ holder[e] = None
    /\ quarantine[e] = None
    /\ token[h] = 0
    /\ holder' = [holder EXCEPT ![e] = h]
    /\ fence' = [fence EXCEPT ![e] = @ + 1]
    /\ token' = [token EXCEPT ![h] = fence[e] + 1]
    /\ UNCHANGED quarantine

Stays(e, h, f, q) == holder'[e] = h /\ fence'[e] = f /\ quarantine'[e] = q

\* The ways an environment may change hands other than by a grant: the
\* holder lets go; it is deposed, which outdates its token; it is put in
\* quarantine where it stands; it is settled; the quarantine is lifted.
Passes(e) ==
    \/ holder[e] # None /\ quarantine[e] = None /\ Stays(e, None, fence[e], None)
    \/ holder[e] # None /\ quarantine[e] = None /\ Stays(e, None, fence[e] + 1, holder[e])
    \/ holder[e] # None /\ quarantine[e] = None /\ Stays(e, holder[e], fence[e], holder[e])
    \/ holder[e] # None /\ quarantine[e] = holder[e] /\ Stays(e, None, fence[e], None)
    \/ holder[e] = None /\ quarantine[e] # None /\ Stays(e, None, fence[e], None)

\* Revoking a server moves all of its environments in one transaction.
Pass ==
    /\ \A e \in Env : Passes(e) \/ Stays(e, holder[e], fence[e], quarantine[e])
    /\ UNCHANGED token

FencedNext == (\E e \in Env, h \in Holder : Grant(e, h)) \/ Pass

FencedSpec == FencedInit /\ [][FencedNext]_fencedVars
=============================================================================
